---- MODULE Spec2Model ----
(***************************************************************************)
(* Markdown <-> Anki synchronisation (src/ankiops, src/deckops).           *)
(*                                                                         *)
(* A markdown file is a sequence of lines.  A line is a record             *)
(*   [k, n, t]: k = "deck_id" / "note_id" (an id comment carrying n),      *)
(*   k = "---" (the note separator), or k = a field prefix such as "T:"    *)
(*   followed by the text t.                                               *)
(* The remote store (Anki behind AnkiConnect) is rDecks / rNotes; every    *)
(* note has one card, whose card id is the note id.                        *)
(***************************************************************************)
EXTENDS Integers, Sequences, FiniteSets, TLC

\* ------------------------------------------------------------------ bounds
\* Most blocks in the first markdown file of the collection.
MaxNotes == 2
\* Number of consecutive import runs over the same two stores.
MaxRuns == 2

\* ------------------------------------------------------------- basic values
None == 0 - 1
NoneStr == "<None>"

Truthy(id) == id # None /\ id # 0

FieldLine(p, t) == [k |-> p, n |-> 0, t |-> t]
NoteIdLine(id) == [k |-> "note_id", n |-> id, t |-> ""]
DeckIdLine(id) == [k |-> "deck_id", n |-> id, t |-> ""]
NOTE_SEPARATOR == [k |-> "---", n |-> 0, t |-> ""]

\* Function helpers (python dicts are functions with a varying domain).
Get(d, key, default) == IF key \in DOMAIN d THEN d[key] ELSE default
Put(d, key, val) == [x \in DOMAIN d \cup {key} |-> IF x = key THEN val ELSE d[x]]
Drop(d, keys) == [x \in DOMAIN d \ keys |-> d[x]]
Range(s) == {s[i] : i \in DOMAIN s}

RECURSIVE SumSeq(_)
SumSeq(s) == IF s = <<>> THEN 0 ELSE Head(s) + SumSeq(Tail(s))

\* ------------------------------------------------------------ configuration
\* Of the four common fields only Extra is kept: More, Source and AI Notes
\* are handled by the same code paths; so are Choice 4 .. Choice 8, which
\* follow Choice 3.
COMMON_FIELDS == << <<"Extra", "E:", FALSE>> >>

NOTE_TYPES ==
    << [name |-> "AnkiOpsQA",
        field_mappings |-> << <<"Question", "Q:", TRUE>>,
                              <<"Answer", "A:", TRUE>> >> \o COMMON_FIELDS],
       [name |-> "AnkiOpsReversed",
        field_mappings |-> << <<"Front", "F:", TRUE>>,
                              <<"Back", "B:", TRUE>> >> \o COMMON_FIELDS],
       [name |-> "AnkiOpsCloze",
        field_mappings |-> << <<"Text", "T:", TRUE>> >> \o COMMON_FIELDS],
       [name |-> "AnkiOpsInput",
        field_mappings |-> << <<"Question", "Q:", TRUE>>,
                              <<"Input", "I:", TRUE>> >> \o COMMON_FIELDS],
       [name |-> "AnkiOpsChoice",
        field_mappings |-> << <<"Question", "Q:", TRUE>>,
                              <<"Choice 1", "C1:", TRUE>>,
                              <<"Choice 2", "C2:", FALSE>>,
                              <<"Choice 3", "C3:", FALSE>>,
                              <<"Answer", "A:", TRUE>> >> \o COMMON_FIELDS] >>

SUPPORTED_NOTE_TYPES == {NOTE_TYPES[i].name : i \in DOMAIN NOTE_TYPES}

TypeConfig(note_type) ==
    NOTE_TYPES[CHOOSE i \in DOMAIN NOTE_TYPES : NOTE_TYPES[i].name = note_type]

FieldMappings(note_type) ==
    IF note_type \in SUPPORTED_NOTE_TYPES THEN TypeConfig(note_type).field_mappings
    ELSE <<>>

TypeFields(note_type) == {m[1] : m \in Range(FieldMappings(note_type))}

AllMappings == UNION {Range(NOTE_TYPES[i].field_mappings) : i \in DOMAIN NOTE_TYPES}

ALL_PREFIX_TO_FIELD == [p \in {m[2] : m \in AllMappings} |->
                           (CHOOSE m \in AllMappings : m[2] = p)[1]]

FIELD_TO_PREFIX == [f \in {m[1] : m \in AllMappings} |->
                       (CHOOSE m \in AllMappings : m[1] = f)[2]]

\* ---------------------------------------------------------- content codec
\* MarkdownToHTML.convert / HTMLToMarkdown.convert on the texts of the model:
\* the markdown text "a" is stored by Anki as the HTML text "ha".
MdTexts == {"a", "b"}

\* A text of two lines: the HTML "ha<br>E: b" becomes the markdown "a", line
\* break, "E: b" (the visitor turns <br> into a line break).
TwoLineMd == "a+E: b"
TwoLineHtml == "ha+E: b"

Convert(md) ==
    IF md = "a" THEN "ha" ELSE IF md = "b" THEN "hb"
    ELSE IF md = TwoLineMd THEN TwoLineHtml ELSE ""

ConvertBack(html) ==
    IF html = "ha" THEN "a" ELSE IF html = "hb" THEN "b"
    ELSE IF html = TwoLineHtml THEN TwoLineMd ELSE ""

\* _CLOZE_PATTERN.search: every non-empty text of the model stands for a text
\* with cloze syntax.
HasCloze(text) == text \in MdTexts

\* ------------------------------------------------------------------- Note
\* A parsed note: [note_id, note_type, fields, error]; fields is the ordered
\* dict as a sequence of <<field_name, content>>.
FieldNames(fields) == {fields[i][1] : i \in DOMAIN fields}

FieldGet(fields, name) ==
    IF name \in FieldNames(fields)
    THEN (CHOOSE p \in Range(fields) : p[1] = name)[2]
    ELSE ""

RequiredFields(i) ==
    {m[1] : m \in {x \in Range(NOTE_TYPES[i].field_mappings) : x[3]}}

\* A type inference that tries the generic QA type first.
infer_note_type_qa_first(fields) ==
    LET keys == FieldNames(fields)
        hits == {i \in DOMAIN NOTE_TYPES :
                    /\ NOTE_TYPES[i].name # "AnkiOpsQA"
                    /\ RequiredFields(i) \subseteq keys}
    IN  IF {"Question", "Answer"} \subseteq keys THEN "AnkiOpsQA"
        ELSE IF hits # {}
        THEN NOTE_TYPES[CHOOSE i \in hits : \A j \in hits : i <= j].name
        ELSE "ValueError"

infer_note_type(fields) ==
    LET keys == FieldNames(fields)
        hits == {i \in DOMAIN NOTE_TYPES :
                    /\ NOTE_TYPES[i].name # "AnkiOpsQA"
                    /\ RequiredFields(i) \subseteq keys}
    IN  IF hits # {}
        THEN NOTE_TYPES[CHOOSE i \in hits : \A j \in hits : i <= j].name
        ELSE IF {"Question", "Answer"} \subseteq keys THEN "AnkiOpsQA"
        ELSE "ValueError"

\* Lines that are no field line and no id comment: a code fence, a line of
\* plain text, and a line that starts with a backslash and a field prefix.
FenceLine == [k |-> "~~~", n |-> 0, t |-> ""]
TextLine(t) == [k |-> "", n |-> 0, t |-> t]
EscapedLine(p, t) == [k |-> "\\" \o p, n |-> 0, t |-> t]

\* The text of a line as it stands in the file.
RawLine(line) ==
    IF line.k = "" THEN line.t
    ELSE IF line.t = "" THEN line.k
    ELSE line.k \o " " \o line.t

\* current_content.append(text) for the current field, the last one added to
\* fields; the content is "\n".join(current_content).strip().
AppendContent(fields, text) ==
    IF fields = <<>> THEN fields
    ELSE [fields EXCEPT ![Len(fields)] =
            <<@[1], IF @[2] = "" THEN text ELSE @[2] \o "\n" \o text>>]

\* A parser that takes a repeated field for a new one.
is_duplicate_never(field_name, fields) == FALSE

\* field_name in seen
is_duplicate(field_name, fields) == field_name \in FieldNames(fields)

RECURSIVE ParseLines(_, _, _)
ParseLines(lines, i, acc) ==
    IF i > Len(lines) THEN acc
    ELSE LET line == lines[i] IN
         IF line = FenceLine
         THEN ParseLines(lines, i + 1,
                 [acc EXCEPT !.in_code_block = ~@,
                             !.fields = AppendContent(@, RawLine(line))])
         ELSE IF line.k = "note_id"
         THEN ParseLines(lines, i + 1, [acc EXCEPT !.note_id = line.n])
         ELSE IF acc.in_code_block
         THEN ParseLines(lines, i + 1,
                 [acc EXCEPT !.fields = AppendContent(@, RawLine(line))])
         ELSE IF line.k \in DOMAIN ALL_PREFIX_TO_FIELD
         THEN LET field_name == ALL_PREFIX_TO_FIELD[line.k] IN
              IF is_duplicate(field_name, acc.fields)
              THEN [acc EXCEPT !.error = "duplicate_field"]
              ELSE ParseLines(lines, i + 1,
                      [acc EXCEPT !.fields = Append(@, <<field_name, line.t>>)])
         ELSE ParseLines(lines, i + 1,
                 [acc EXCEPT !.fields = AppendContent(@, RawLine(line))])

from_block(block) ==
    LET acc == ParseLines(block, 1,
                   [note_id |-> None, fields |-> <<>>, error |-> "",
                    in_code_block |-> FALSE])
        ty == infer_note_type(acc.fields)
    IN  [note_id |-> acc.note_id,
         note_type |-> ty,
         fields |-> acc.fields,
         error |-> IF acc.error # "" THEN acc.error
                   ELSE IF ty = "ValueError" THEN "cannot_determine_type"
                   ELSE ""]

first_line(note) ==
    IF note.fields = <<>> THEN FieldLine("", "")
    ELSE LET name == note.fields[1][1] IN
         IF name \in DOMAIN FIELD_TO_PREFIX
         THEN FieldLine(FIELD_TO_PREFIX[name], note.fields[1][2])
         ELSE FieldLine("", "")

\* The answers of a Choice note in the model, and what
\* [int(p) for p in (p.strip() for p in answer.split(","))] makes of them;
\* any other text has an entry that is no integer.
ChoiceAnswers == {"1", "2", "3", "1, 3", "0", "1, x"}

answer_ints(answer) ==
    IF answer = "1" THEN <<1>>
    ELSE IF answer = "2" THEN <<2>>
    ELSE IF answer = "3" THEN <<3>>
    ELSE IF answer = "1, 3" THEN <<1, 3>>
    ELSE IF answer = "0" THEN <<0>>
    ELSE <<None>>

is_integers(answer) == answer \in ChoiceAnswers \ {"1, x"}

ChoiceNumbers == 1..3

ChoiceField(i) == IF i = 1 THEN "Choice 1" ELSE IF i = 2 THEN "Choice 2" ELSE "Choice 3"

\* The number of the last choice that is provided.
max_choice(note) ==
    LET given == {i \in ChoiceNumbers : FieldGet(note.fields, ChoiceField(i)) # ""}
    IN  IF given = {} THEN 0 ELSE CHOOSE i \in given : \A j \in given : j <= i

choice_in_range(note, n) == ~(n < 1 \/ n > max_choice(note))

validate_choice_answers(note) ==
    LET answer == FieldGet(note.fields, "Answer")
    IN  IF answer = "" THEN <<>>
        ELSE IF ~is_integers(answer) THEN <<"answer_not_integers">>
        ELSE IF \E k \in DOMAIN answer_ints(answer) :
                   ~choice_in_range(note, answer_ints(answer)[k])
             THEN <<"answer_out_of_range">>
             ELSE <<>>

validate(note) ==
    IF note.note_type \notin SUPPORTED_NOTE_TYPES THEN <<"unknown_note_type">>
    ELSE LET maps == FieldMappings(note.note_type)
             missing == SelectSeq(maps,
                           LAMBDA m : m[3] /\ FieldGet(note.fields, m[1]) = "")
             text == FieldGet(note.fields, "Text")
         IN  [i \in 1..Len(missing) |-> "missing_mandatory_field"]
             \o (IF note.note_type = "AnkiOpsCloze" /\ text # "" /\ ~HasCloze(text)
                 THEN <<"no_cloze_syntax">> ELSE <<>>)
             \o (IF note.note_type = "AnkiOpsChoice"
                 THEN validate_choice_answers(note) ELSE <<>>)

to_html_present_only(note) ==
    [name \in FieldNames(note.fields) |-> Convert(FieldGet(note.fields, name))]

to_html(note) ==
    [name \in FieldNames(note.fields) \cup TypeFields(note.note_type) |->
        IF name \in FieldNames(note.fields)
        THEN Convert(FieldGet(note.fields, name))
        ELSE ""]

html_fields_match(html_fields, anki_note) ==
    \A key \in DOMAIN html_fields :
        Get(anki_note.fields, key, NoneStr) = html_fields[key]

\* -------------------------------------------------------------- FileState
extract_deck_id(content) ==
    IF Len(content) > 0 /\ content[1].k = "deck_id"
    THEN <<content[1].n, Tail(content)>>
    ELSE <<None, content>>

\* str.split(NOTE_SEPARATOR), keeping the blocks with block.strip() non-empty.
RECURSIVE SplitBlocks(_, _)
SplitBlocks(lines, block) ==
    IF lines = <<>> THEN (IF block = <<>> THEN <<>> ELSE <<block>>)
    ELSE IF Head(lines) = NOTE_SEPARATOR
         THEN (IF block = <<>> THEN <<>> ELSE <<block>>)
              \o SplitBlocks(Tail(lines), <<>>)
         ELSE SplitBlocks(Tail(lines), Append(block, Head(lines)))

from_file(file_path, raw_content) ==
    LET ex == extract_deck_id(raw_content)
        blocks == SplitBlocks(ex[2], <<>>)
        parsed == [i \in 1..Len(blocks) |-> from_block(blocks[i])]
    IN  [file_path |-> file_path,
         raw_content |-> raw_content,
         deck_id |-> ex[1],
         parsed_notes |-> parsed,
         error |-> IF \E i \in DOMAIN parsed : parsed[i].error # ""
                   THEN "ValueError" ELSE ""]

note_ids(fs) ==
    {fs.parsed_notes[i].note_id : i \in DOMAIN fs.parsed_notes} \ {None}

has_untracked(fs) ==
    \E i \in DOMAIN fs.parsed_notes : fs.parsed_notes[i].note_id = None


\* ------------------------------------------------------------------ state
VARIABLES
    files,            \* disk: file stem -> content (sequence of lines)
    rDecks,           \* Anki: deck name -> deck id
    rNotes,           \* Anki: note id -> [note_type, fields, deck]
    rNext,            \* Anki: next id it assigns (a creation timestamp)
    only_add_new,     \* argument of import_collection
    pc,               \* position in import_collection / export
    raised,           \* why the run raised ("" while it has not)
    run,              \* number of the current run
    file_states,      \* list[FileState], parsed once per run
    global_note_ids,  \* set of every note id of every file
    md_deck_ids,      \* set of every deck id of every file
    anki,             \* AnkiState, fetched once per run
    idx,              \* index of the file being synced / flushed
    cur,              \* locals of _sync_file between its phases
    results,          \* list[FileImportResult]
    pending_writes,   \* list[_PendingWrite]
    calls,            \* AnkiConnect requests issued in this run, in order
    untracked_decks,  \* ImportSummary.untracked_decks
    history,          \* outcome of the earlier runs
    args,             \* export: [op, deck_name, keep_orphans]
    files_by_path,    \* export: path -> FileState, read once
    files_by_deck_id, \* export: deck id -> path of the file that carries it
    answers           \* what the caller typed at a confirmation prompt of
                      \* export or of run_ma, in order

vars == <<files, rDecks, rNotes, rNext, only_add_new, pc, raised, run,
          file_states, global_note_ids, md_deck_ids, anki, idx, cur, results,
          pending_writes, calls, untracked_decks, history,
          args, files_by_path, files_by_deck_id, answers>>

exportVars == <<args, files_by_path, files_by_deck_id, answers>>

importVars == <<only_add_new, run, file_states, global_note_ids, md_deck_ids,
                cur, pending_writes, untracked_decks, history, rNext>>

remoteVars == <<rDecks, rNotes, rNext>>

FileOrder == <<"A", "B">>

\* sorted(collection_path.glob("*.md"))
md_files == SelectSeq(FileOrder, LAMBDA f : f \in DOMAIN files)

Indices(s) == [i \in 1..Len(s) |-> i]

Call(action, deck, ids) == [action |-> action, deck |-> deck, ids |-> ids]

MutationActions ==
    {"createDeck", "changeDeck", "updateNoteFields", "deleteNotes", "addNote"}

Mutations(cs) == SelectSeq(cs, LAMBDA c : c.action \in MutationActions)

NoAnki == [deck_names_and_ids |-> <<>>, id_to_deck_name |-> <<>>,
           notes |-> <<>>, cards |-> <<>>, deck_note_ids |-> <<>>]

NoCur == [deck_name |-> "", deck_id_to_write |-> None,
          existing |-> <<>>, new |-> <<>>,
          updated |-> 0, created |-> 0, deleted |-> 0, moved |-> 0,
          skipped |-> 0, errors |-> <<>>]

\* ------------------------------------------------------------- AnkiState
\* AnkiState.fetch: deckNamesAndIds, findCards, cardsInfo, notesInfo.
fetch ==
    LET found == {n \in DOMAIN rNotes : rNotes[n].note_type \in SUPPORTED_NOTE_TYPES}
        ids == {rDecks[d] : d \in DOMAIN rDecks}
    IN  [deck_names_and_ids |-> rDecks,
         id_to_deck_name |-> [i \in ids |-> CHOOSE d \in DOMAIN rDecks : rDecks[d] = i],
         notes |-> [n \in found |-> [note_type |-> rNotes[n].note_type,
                                     fields |-> rNotes[n].fields,
                                     card_ids |-> {n}]],
         cards |-> [c \in found |-> [deckName |-> rNotes[c].deck, note |-> c]],
         deck_note_ids |-> [d \in {rNotes[n].deck : n \in found} |->
                               {n \in found : rNotes[n].deck = d}]]

\* A fetch that asks for the notes one by one.
fetch_calls_per_note(returned) ==
    << Call("deckNamesAndIds", "", {}), Call("findCards", "", {}) >>
    \o (IF returned # {} THEN << Call("cardsInfo", "", returned) >> ELSE <<>>)
    \o LET ids == SelectSeq(<<1, 2, 3>>, LAMBDA n : n \in returned)
       IN  [k \in DOMAIN ids |-> Call("notesInfo", "", {ids[k]})]

\* The requests of AnkiState.fetch when findCards answers with the cards of
\* the notes `returned`.
fetch_calls(returned) ==
    << Call("deckNamesAndIds", "", {}), Call("findCards", "", {}) >>
    \o (IF returned # {}
        THEN << Call("cardsInfo", "", returned), Call("notesInfo", "", returned) >>
        ELSE <<>>)

\* A fetch that trusts every note notesInfo answers with.
foreign_notes_none(returned) == {}

\* The notes of the notesInfo answer whose modelName is not a managed type.
foreign_notes(returned) ==
    {n \in returned : rNotes[n].note_type \notin SUPPORTED_NOTE_TYPES}

\* What findCards may answer with: the notes of the managed types, and any
\* of the other notes of the collection that Anki's search matches as well.
Returned ==
    {{n \in DOMAIN rNotes : rNotes[n].note_type \in SUPPORTED_NOTE_TYPES} \cup extra :
        extra \in SUBSET {n \in DOMAIN rNotes :
                             rNotes[n].note_type \notin SUPPORTED_NOTE_TYPES}}

\* --------------------------------------------- import_collection, phase 2
AllNoteIdOccurrences(fss) ==
    UNION {{<<i, j>> : j \in {j \in DOMAIN fss[i].parsed_notes :
                                  fss[i].parsed_notes[j].note_id # None}} :
           i \in DOMAIN fss}

\* The cross-file validation without its deck id half.
cross_file_duplicates_notes_only(fss) ==
    LET occ == AllNoteIdOccurrences(fss)
    IN  {fss[o[1]].parsed_notes[o[2]].note_id : o \in
            {o \in occ : \E q \in occ :
                /\ q # o
                /\ fss[q[1]].parsed_notes[q[2]].note_id
                     = fss[o[1]].parsed_notes[o[2]].note_id}}

\* duplicate_ids of the cross-file validation: a note id met a second time
\* (in any file), a deck id met in a second file.
cross_file_duplicates(fss) ==
    LET occ == AllNoteIdOccurrences(fss)
        dup_notes == {fss[o[1]].parsed_notes[o[2]].note_id : o \in
                        {o \in occ : \E q \in occ :
                            /\ q # o
                            /\ fss[q[1]].parsed_notes[q[2]].note_id
                                 = fss[o[1]].parsed_notes[o[2]].note_id}}
        dup_decks == {fss[i].deck_id : i \in
                        {i \in DOMAIN fss : /\ fss[i].deck_id # None
                                            /\ \E j \in DOMAIN fss :
                                                 j # i /\ fss[j].deck_id = fss[i].deck_id}}
    IN  dup_notes \cup dup_decks

ImportStart ==
    /\ pc = "start"
    /\ LET fss == [i \in 1..Len(md_files) |-> from_file(md_files[i], files[md_files[i]])]
       IN  IF \E i \in DOMAIN fss : fss[i].error # ""
           THEN /\ pc' = "raised"
                /\ raised' = "parse_error"
                /\ UNCHANGED <<file_states, global_note_ids, md_deck_ids>>
           ELSE /\ file_states' = fss
                /\ global_note_ids' = UNION {note_ids(fss[i]) : i \in DOMAIN fss}
                /\ md_deck_ids' = {fss[i].deck_id : i \in DOMAIN fss} \ {None}
                /\ IF cross_file_duplicates(fss) # {}
                   THEN pc' = "raised" /\ raised' = "duplicate_ids"
                   ELSE pc' = "fetch" /\ UNCHANGED raised
    /\ UNCHANGED <<files, remoteVars, only_add_new, run, anki, idx, cur, results,
                   pending_writes, calls, untracked_decks, history, exportVars>>

\* --------------------------------------------- import_collection, phase 3
Fetch ==
    /\ pc = "fetch"
    /\ \E returned \in Returned :
          /\ calls' = calls \o fetch_calls(returned)
          /\ IF foreign_notes(returned) # {}
             THEN pc' = "raised" /\ raised' = "safety_check" /\ UNCHANGED anki
             ELSE pc' = "prompt" /\ anki' = fetch /\ UNCHANGED raised
    /\ UNCHANGED <<files, remoteVars, only_add_new, run, file_states,
                   global_note_ids, md_deck_ids, idx, cur, results,
                   pending_writes, untracked_decks, history, exportVars>>

\* --------------------------------------------- import_collection, phase 4
validate_ids(fss, valid_deck_ids, valid_note_ids) ==
    {<<"deck_id", fss[i].deck_id>> : i \in
        {i \in DOMAIN fss : fss[i].deck_id # None /\ fss[i].deck_id \notin valid_deck_ids}}
    \cup
    {<<"note_id", n>> : n \in
        UNION {note_ids(fss[i]) : i \in DOMAIN fss} \ valid_note_ids}

\* input(...).strip().lower()
Answers == {"y", "Y", "n", ""}

Normalize(answer) == IF answer = "Y" THEN "y" ELSE answer

PromptInvalidIds(answer) ==
    /\ pc = "prompt"
    /\ LET invalid_ids == validate_ids(file_states,
                              DOMAIN anki.id_to_deck_name, DOMAIN anki.notes)
       IN  IF invalid_ids # {} /\ Normalize(answer) # "y"
           THEN pc' = "cancelled" /\ UNCHANGED idx
           ELSE IF Len(file_states) = 0
                THEN pc' = "untracked" /\ idx' = 1
                ELSE pc' = "resolve" /\ idx' = 1
    /\ UNCHANGED <<files, remoteVars, only_add_new, raised, run, file_states,
                   global_note_ids, md_deck_ids, anki, cur, results,
                   pending_writes, calls, untracked_decks, history, exportVars>>


\* ------------------------------------------------------------- _sync_file
\* Phase 1: validation and conversion of every note, in file order.
RECURSIVE ValidationErrors(_)
ValidationErrors(notes) ==
    IF notes = <<>> THEN <<>>
    ELSE validate(Head(notes)) \o ValidationErrors(Tail(notes))

IsValid(note) == validate(note) = <<>>

classify_existing(fs, add_only) ==
    SelectSeq(Indices(fs.parsed_notes),
        LAMBDA i : /\ IsValid(fs.parsed_notes[i])
                   /\ Truthy(fs.parsed_notes[i].note_id)
                   /\ ~add_only)

classify_new(fs) ==
    SelectSeq(Indices(fs.parsed_notes),
        LAMBDA i : /\ IsValid(fs.parsed_notes[i])
                   /\ ~Truthy(fs.parsed_notes[i].note_id))

classify_skipped(fs, add_only) ==
    Len(SelectSeq(Indices(fs.parsed_notes),
        LAMBDA i : /\ IsValid(fs.parsed_notes[i])
                   /\ Truthy(fs.parsed_notes[i].note_id)
                   /\ add_only))

\* Safety check: note type mismatches.
type_mismatch(fs, existing, snapshot) ==
    \E k \in DOMAIN existing :
        LET note == fs.parsed_notes[existing[k]] IN
        /\ note.note_id \in DOMAIN snapshot.notes
        /\ snapshot.notes[note.note_id].note_type # note.note_type

\* The deck name taken from the file name alone.
resolve_deck_name_by_file_name(fs, snapshot) == fs.file_path

\* Phase 0: the deck of the deck_id marker if the snapshot knows the id, else
\* the deck named after the file.
resolve_deck_name(fs, snapshot) ==
    IF Truthy(fs.deck_id) /\ fs.deck_id \in DOMAIN snapshot.id_to_deck_name
    THEN snapshot.id_to_deck_name[fs.deck_id]
    ELSE fs.file_path

\* The phases of _sync_file that talk to Anki, with the update batch before
\* the move of the cards.
phase_after_update_first(phase) ==
    IF phase = "resolve" THEN "update"
    ELSE IF phase = "update" THEN "move"
    ELSE IF phase = "move" THEN "delete"
    ELSE "create"

\* The phases of _sync_file that talk to Anki, in the order of the code:
\* resolve (createDeck), move (changeDeck), update, delete, create.
phase_after(phase) ==
    IF phase = "resolve" THEN "move"
    ELSE IF phase = "move" THEN "update"
    ELSE IF phase = "update" THEN "delete"
    ELSE "create"

\* Phase 0 (resolve deck), phase 1 (classify) and the type guard of phase 2.
SyncResolve ==
    /\ pc = "resolve"
    /\ LET fs == file_states[idx]
           by_id == Truthy(fs.deck_id) /\ fs.deck_id \in DOMAIN anki.id_to_deck_name
           deck_name == resolve_deck_name(fs, anki)
           create == ~by_id /\ deck_name \notin DOMAIN anki.deck_names_and_ids
           new_deck_id == rNext
           deck_id_to_write ==
               IF create THEN new_deck_id
               ELSE IF ~by_id /\ ~Truthy(fs.deck_id)
                    THEN anki.deck_names_and_ids[deck_name]
                    ELSE None
           existing == classify_existing(fs, only_add_new)
       IN  /\ IF create
              THEN /\ rDecks' = Put(rDecks, deck_name, new_deck_id)
                   /\ rNext' = rNext + 1
                   /\ anki' = [anki EXCEPT
                        !.deck_names_and_ids = Put(@, deck_name, new_deck_id),
                        !.id_to_deck_name = Put(@, new_deck_id, deck_name)]
                   /\ calls' = Append(calls, Call("createDeck", deck_name, {}))
              ELSE UNCHANGED <<rDecks, rNext, anki, calls>>
           /\ cur' = [NoCur EXCEPT
                        !.deck_name = deck_name,
                        !.deck_id_to_write = deck_id_to_write,
                        !.existing = existing,
                        !.new = classify_new(fs),
                        !.skipped = classify_skipped(fs, only_add_new),
                        !.errors = ValidationErrors(fs.parsed_notes)]
           /\ IF type_mismatch(fs, existing, anki)
              THEN pc' = "raised" /\ raised' = "type_mismatch"
              ELSE pc' = phase_after("resolve") /\ UNCHANGED raised
    /\ UNCHANGED <<files, rNotes, only_add_new, run, file_states, global_note_ids,
                   md_deck_ids, idx, results, pending_writes, untracked_decks,
                   history, exportVars>>

\* Phase 2: move cards that are in the wrong deck.
cards_to_move(fs, existing, snapshot, deck_name) ==
    UNION {{cid \in snapshot.notes[fs.parsed_notes[existing[k]].note_id].card_ids :
               /\ cid \in DOMAIN snapshot.cards
               /\ snapshot.cards[cid].deckName # deck_name} :
           k \in {k \in DOMAIN existing :
                    fs.parsed_notes[existing[k]].note_id \in DOMAIN snapshot.notes}}

\* AnkiConnect changeDeck: the cards that exist go to the deck.
remote_changeDeck(notes, cards, deck) ==
    [n \in DOMAIN notes |-> IF n \in cards THEN [notes[n] EXCEPT !.deck = deck]
                            ELSE notes[n]]

SyncMove(ok) ==
    /\ pc = "move"
    /\ LET fs == file_states[idx]
           to_move == cards_to_move(fs, cur.existing, anki, cur.deck_name)
           moved_notes == {anki.cards[cid].note : cid \in to_move}
       IN  IF to_move = {}
           THEN UNCHANGED <<rNotes, calls, cur>>
           ELSE /\ calls' = Append(calls, Call("changeDeck", cur.deck_name, to_move))
                /\ IF ok
                   THEN /\ rNotes' = remote_changeDeck(rNotes, to_move, cur.deck_name)
                        /\ cur' = [cur EXCEPT !.moved = @ + Cardinality(moved_notes)]
                   ELSE /\ UNCHANGED rNotes
                        /\ cur' = [cur EXCEPT !.errors =
                                     @ \o [k \in DOMAIN cur.existing |-> "failed_to_move_deck"]]
    /\ pc' = phase_after("move")
    /\ UNCHANGED <<files, rDecks, rNext, only_add_new, raised, run, file_states,
                   global_note_ids, md_deck_ids, anki, idx, results,
                   pending_writes, untracked_decks, history, exportVars>>

\* Phase 2: build the update batch; stale notes go to the create batch.
is_stale(note, snapshot) == note.note_id \notin DOMAIN snapshot.notes

stale_notes(fs, existing, snapshot) ==
    SelectSeq(existing, LAMBDA i : is_stale(fs.parsed_notes[i], snapshot))

update_notes(fs, existing, snapshot) ==
    SelectSeq(existing,
        LAMBDA i : /\ ~is_stale(fs.parsed_notes[i], snapshot)
                   /\ ~html_fields_match(to_html(fs.parsed_notes[i]),
                                         snapshot.notes[fs.parsed_notes[i].note_id]))

\* AnkiConnect updateNoteFields: the named fields of the note's model are set.
remote_updateNoteFields(notes, id, html_fields) ==
    IF id \notin DOMAIN notes THEN notes
    ELSE [notes EXCEPT ![id].fields =
            [f \in DOMAIN @ |-> IF f \in DOMAIN html_fields THEN html_fields[f] ELSE @[f]]]

\* An update batch that Anki gives up at its first failing item.
RECURSIVE ApplyUpdatesUntilFailure(_, _, _, _)
ApplyUpdatesUntilFailure(notes, fs, batch, failing) ==
    IF batch = <<>> \/ Head(batch) \in failing THEN notes
    ELSE LET note == fs.parsed_notes[Head(batch)]
         IN  ApplyUpdatesUntilFailure(
                 remote_updateNoteFields(notes, note.note_id, to_html(note)),
                 fs, Tail(batch), failing)

RECURSIVE ApplyUpdates(_, _, _, _)
ApplyUpdates(notes, fs, batch, failing) ==
    IF batch = <<>> THEN notes
    ELSE LET note == fs.parsed_notes[Head(batch)]
             next == IF Head(batch) \in failing THEN notes
                     ELSE remote_updateNoteFields(notes, note.note_id, to_html(note))
         IN  ApplyUpdates(next, fs, Tail(batch), failing)

SyncUpdate(failing) ==
    /\ pc = "update"
    /\ LET fs == file_states[idx]
           stale == stale_notes(fs, cur.existing, anki)
           batch == update_notes(fs, cur.existing, anki)
           matching == Len(cur.existing) - Len(stale) - Len(batch)
           failed == SelectSeq(batch, LAMBDA i : i \in failing)
       IN  /\ failing \subseteq Range(batch)
           /\ IF batch = <<>>
              THEN UNCHANGED <<rNotes, calls>>
              ELSE /\ rNotes' = ApplyUpdates(rNotes, fs, batch, failing)
                   /\ calls' = Append(calls, Call("updateNoteFields", "",
                                  {fs.parsed_notes[i].note_id : i \in Range(batch)}))
           /\ cur' = [cur EXCEPT
                        !.skipped = @ + matching,
                        !.updated = @ + Len(batch) - Len(failed),
                        !.errors = @ \o [k \in DOMAIN failed |-> "update_failed"],
                        !.new = @ \o stale]
    /\ pc' = phase_after("update")
    /\ UNCHANGED <<files, rDecks, rNext, only_add_new, raised, run, file_states,
                   global_note_ids, md_deck_ids, anki, idx, results,
                   pending_writes, untracked_decks, history, exportVars>>

\* The orphan rule without the ids claimed by the other files.
orphaned_notes_unprotected(fs, deck_name, snapshot, global_ids) ==
    Get(snapshot.deck_note_ids, deck_name, {}) \ note_ids(fs)

\* Phase 3: delete orphaned notes.
orphaned_notes(fs, deck_name, snapshot, global_ids) ==
    LET md_note_ids == note_ids(fs)
        anki_deck_note_ids == Get(snapshot.deck_note_ids, deck_name, {})
    IN  (anki_deck_note_ids \ md_note_ids) \ global_ids

SyncDelete ==
    /\ pc = "delete"
    /\ LET orphaned == orphaned_notes(file_states[idx], cur.deck_name, anki,
                                      global_note_ids)
       IN  IF orphaned = {}
           THEN UNCHANGED <<rNotes, calls, cur>>
           ELSE /\ rNotes' = Drop(rNotes, orphaned)
                /\ calls' = Append(calls, Call("deleteNotes", cur.deck_name, orphaned))
                /\ cur' = [cur EXCEPT !.deleted = @ + Cardinality(orphaned)]
    /\ pc' = phase_after("delete")
    /\ UNCHANGED <<files, rDecks, rNext, only_add_new, raised, run, file_states,
                   global_note_ids, md_deck_ids, anki, idx, results,
                   pending_writes, untracked_decks, history, exportVars>>


\* Phase 4: create new notes (including stale re-creations).
\* AnkiConnect addNote with allowDuplicate False refuses a note whose first
\* field equals the first field of a note of the same model.
FirstField(note_type) == FieldMappings(note_type)[1][1]

remote_is_duplicate(notes, note_type, html_fields) ==
    \E n \in DOMAIN notes :
        /\ notes[n].note_type = note_type
        /\ notes[n].fields[FirstField(note_type)] = html_fields[FirstField(note_type)]

remote_addNote(notes, id, deck, note_type, html_fields) ==
    Put(notes, id,
        [note_type |-> note_type,
         fields |-> [f \in TypeFields(note_type) |-> Get(html_fields, f, "")],
         deck |-> deck])

\* The create batch, item by item: [notes, next, id_assignments, errors].
RECURSIVE CreateBatch(_, _, _, _, _)
CreateBatch(st, fs, deck, batch, failing) ==
    IF batch = <<>> THEN st
    ELSE LET i == Head(batch)
             note == fs.parsed_notes[i]
             html == to_html(note)
             refused == i \in failing \/ remote_is_duplicate(st.notes, note.note_type, html)
             next == IF refused
                     THEN [st EXCEPT !.errors = Append(@, "create_failed")]
                     ELSE [notes |-> remote_addNote(st.notes, st.next, deck,
                                                    note.note_type, html),
                           next |-> st.next + 1,
                           id_assignments |-> Append(st.id_assignments, <<i, st.next>>),
                           errors |-> st.errors]
         IN  CreateBatch(next, fs, deck, Tail(batch), failing)

FileResult(c) ==
    [deck_name |-> c.deck_name, updated |-> c.updated, created |-> c.created,
     deleted |-> c.deleted, moved |-> c.moved, skipped |-> c.skipped,
     errors |-> c.errors]

\* Phase 4 and phase 5 (result and pending write), then the next file.
SyncCreate ==
    /\ pc = "create"
    /\ \E failing \in SUBSET Range(cur.new) :
         LET fs == file_states[idx]
             out == CreateBatch([notes |-> rNotes, next |-> rNext,
                                 id_assignments |-> <<>>, errors |-> <<>>],
                                fs, cur.deck_name, cur.new, failing)
             done == [cur EXCEPT !.created = @ + Len(out.id_assignments),
                                 !.errors = @ \o out.errors]
         IN  /\ IF cur.new = <<>>
                THEN UNCHANGED <<rNotes, rNext, calls>>
                ELSE /\ rNotes' = out.notes
                     /\ rNext' = out.next
                     /\ calls' = Append(calls, Call("addNote", cur.deck_name,
                                    {a[2] : a \in Range(out.id_assignments)}))
             /\ results' = Append(results, FileResult(done))
             /\ pending_writes' = Append(pending_writes,
                    [file_path |-> fs.file_path,
                     deck_id_to_write |-> cur.deck_id_to_write,
                     id_assignments |-> out.id_assignments])
    /\ cur' = NoCur
    /\ IF idx < Len(file_states)
       THEN idx' = idx + 1 /\ pc' = "resolve"
       ELSE idx' = 1 /\ pc' = "flush"
    /\ UNCHANGED <<files, rDecks, only_add_new, raised, run, file_states,
                   global_note_ids, md_deck_ids, anki, untracked_decks, history, exportVars>>

\* ---------------------------------------------------------- _flush_writes
\* A check of the first lines that never objects.
has_duplicate_first_lines_never(fs, id_assignments) == FALSE

\* _validate_no_duplicate_first_lines: two new notes share a first line.
has_duplicate_first_lines(fs, id_assignments) ==
    \E a, b \in DOMAIN id_assignments :
        /\ a # b
        /\ fs.parsed_notes[id_assignments[a][1]].note_id = None
        /\ fs.parsed_notes[id_assignments[b][1]].note_id = None
        /\ first_line(fs.parsed_notes[id_assignments[a][1]])
             = first_line(fs.parsed_notes[id_assignments[b][1]])

\* "needle in line" for a needle that is an id comment or a first line.
LineContains(line, needle) ==
    /\ line.k = needle.k
    /\ line.n = needle.n
    /\ ((needle.t = "" /\ needle.k \notin {"note_id", "deck_id"}) \/ line.t = needle.t)

FirstIndex(content, needle) ==
    LET hits == {i \in DOMAIN content : LineContains(content[i], needle)}
    IN  IF hits = {} THEN 0 ELSE CHOOSE i \in hits : \A j \in hits : i <= j

\* content.replace(old_id_comment, new_id_comment, 1)
replace_id_comment(content, old_id, new_id) ==
    LET i == FirstIndex(content, NoteIdLine(old_id))
    IN  IF i = 0 THEN content ELSE [content EXCEPT ![i] = NoteIdLine(new_id)]

\* content.replace(first_line, new_id_comment + "\n" + first_line, 1)
insert_id_comment(content, first, new_id) ==
    LET i == FirstIndex(content, first)
    IN  IF i = 0 THEN content
        ELSE SubSeq(content, 1, i - 1) \o <<NoteIdLine(new_id)>>
             \o SubSeq(content, i, Len(content))

RECURSIVE write_note_ids(_, _, _)
write_note_ids(content, fs, id_assignments) ==
    IF id_assignments = <<>> THEN content
    ELSE LET note == fs.parsed_notes[Head(id_assignments)[1]]
             id_value == Head(id_assignments)[2]
             next == IF note.note_id # None
                     THEN replace_id_comment(content, note.note_id, id_value)
                     ELSE insert_id_comment(content, first_line(note), id_value)
         IN  write_note_ids(next, fs, Tail(id_assignments))

write_deck_id(content, deck_id_to_write) ==
    IF deck_id_to_write # None
    THEN <<DeckIdLine(deck_id_to_write)>> \o extract_deck_id(content)[2]
    ELSE content

flush_content(fs, w) ==
    write_note_ids(write_deck_id(fs.raw_content, w.deck_id_to_write),
                   fs, w.id_assignments)

\* One iteration of the loop of _flush_writes.
FlushWrite ==
    /\ pc = "flush"
    /\ LET w == pending_writes[idx]
           fs == file_states[idx]
       IN  IF w.deck_id_to_write = None /\ w.id_assignments = <<>>
           THEN /\ UNCHANGED <<files, raised>>
                /\ pc' = IF idx < Len(pending_writes) THEN "flush" ELSE "untracked"
           ELSE IF has_duplicate_first_lines(fs, w.id_assignments)
           THEN /\ UNCHANGED files
                /\ raised' = "duplicate_first_lines"
                /\ pc' = "raised"
           ELSE /\ files' = [files EXCEPT ![w.file_path] = flush_content(fs, w)]
                /\ UNCHANGED raised
                /\ pc' = IF idx < Len(pending_writes) THEN "flush" ELSE "untracked"
    /\ idx' = IF pc' = "raised" THEN idx ELSE idx + 1
    /\ UNCHANGED <<remoteVars, only_add_new, run, file_states, global_note_ids,
                   md_deck_ids, anki, cur, results, pending_writes, calls,
                   untracked_decks, history, exportVars>>

\* --------------------------------------------- import_collection, phase 7
untracked(snapshot, deck_ids) ==
    {[deck_name |-> d, deck_id |-> snapshot.deck_names_and_ids[d],
      note_ids |-> snapshot.deck_note_ids[d]] :
        d \in {d \in DOMAIN snapshot.deck_note_ids :
                 /\ d \in DOMAIN snapshot.deck_names_and_ids
                 /\ snapshot.deck_names_and_ids[d] \notin deck_ids}}

DetectUntracked ==
    /\ pc = "untracked"
    /\ untracked_decks' = untracked(anki, md_deck_ids)
    /\ pc' = "done"
    /\ UNCHANGED <<files, remoteVars, only_add_new, raised, run, file_states,
                   global_note_ids, md_deck_ids, anki, idx, cur, results,
                   pending_writes, calls, history, exportVars>>

\* ------------------------------------------------------- the next run
Terminal == pc \in {"done", "raised", "cancelled"}

TotalErrors == SumSeq([i \in DOMAIN results |-> Len(results[i].errors)])
              + Len(cur.errors)

Rerun ==
    /\ Terminal
    /\ run < MaxRuns
    /\ run' = run + 1
    /\ history' = Append(history, [end |-> pc, raised |-> raised,
                                   errors |-> TotalErrors,
                                   mutations |-> Len(Mutations(calls))])
    /\ pc' = "start"
    /\ raised' = ""
    /\ file_states' = <<>>
    /\ global_note_ids' = {}
    /\ md_deck_ids' = {}
    /\ anki' = NoAnki
    /\ idx' = 0
    /\ cur' = NoCur
    /\ results' = <<>>
    /\ pending_writes' = <<>>
    /\ calls' = <<>>
    /\ untracked_decks' = {}
    /\ UNCHANGED <<files, remoteVars, only_add_new, exportVars>>

\* ------------------------------------------------------------------- Init
\* The blocks of the model: two Cloze texts with the same first line
\* ("E: a"), with or without an id, and a Cloze block with an empty T: field.
BodyA == << FieldLine("E:", "a"), FieldLine("T:", "a") >>
BodyB == << FieldLine("E:", "a"), FieldLine("T:", "b") >>
BodyEmpty == << FieldLine("T:", "") >>

LocalNoteIds == {1}

Blocks == {BodyA, BodyB}
          \cup {<<NoteIdLine(n)>> \o BodyA : n \in LocalNoteIds}
          \cup {<<NoteIdLine(n)>> \o BodyEmpty : n \in LocalNoteIds}

RECURSIVE Join(_)
Join(blocks) ==
    IF blocks = <<>> THEN <<>>
    ELSE IF Len(blocks) = 1 THEN blocks[1]
    ELSE blocks[1] \o <<NOTE_SEPARATOR>> \o Join(Tail(blocks))

FileContent(deck_id, blocks) ==
    (IF deck_id = None THEN <<>> ELSE <<DeckIdLine(deck_id)>>) \o Join(blocks)

BlockSeqs(max) == UNION {[1..n -> Blocks] : n \in 0..max}

ClozeNote(text, deck) ==
    [note_type |-> "AnkiOpsCloze",
     fields |-> [f \in TypeFields("AnkiOpsCloze") |->
                    IF f = "Text" THEN text ELSE IF f = "Extra" THEN "ha" ELSE ""],
     deck |-> deck]

QANote(deck) ==
    [note_type |-> "AnkiOpsQA",
     fields |-> [f \in TypeFields("AnkiOpsQA") |->
                    IF f \in {"Question", "Answer"} THEN "ha" ELSE ""],
     deck |-> deck]

\* Anki before the first run: the deck "A" (id 10), and notes 1 and 2 or not.
RemoteNote1 == {<<>>} \cup {1 :> x : x \in {ClozeNote("ha", "A"), ClozeNote("hb", "A"),
                                           QANote("A")}}
RemoteNote2 == {<<>>, 2 :> ClozeNote("hb", "A")}

InitFiles ==
    {("A" :> FileContent(da, ba)) @@ fb :
        da \in {None, 10, 11},
        ba \in BlockSeqs(MaxNotes),
        fb \in {<<>>} \cup {"B" :> FileContent(db, bb) :
                              db \in {None, 10}, bb \in BlockSeqs(1)}}

Init ==
    /\ files \in InitFiles
    /\ rDecks = ("A" :> 10)
    /\ \E n1 \in RemoteNote1, n2 \in RemoteNote2 : rNotes = n1 @@ n2
    /\ rNext = 20
    /\ only_add_new = FALSE
    /\ pc = "start"
    /\ raised = ""
    /\ run = 1
    /\ file_states = <<>>
    /\ global_note_ids = {}
    /\ md_deck_ids = {}
    /\ anki = NoAnki
    /\ idx = 0
    /\ cur = NoCur
    /\ results = <<>>
    /\ pending_writes = <<>>
    /\ calls = <<>>
    /\ untracked_decks = {}
    /\ history = <<>>
    /\ args = [op |-> "import_collection", deck_name |-> "", keep_orphans |-> FALSE]
    /\ files_by_path = <<>>
    /\ files_by_deck_id = <<>>
    /\ answers = <<>>

Next ==
    \/ ImportStart
    \/ Fetch
    \/ \E answer \in Answers : PromptInvalidIds(answer)
    \/ SyncResolve
    \/ \E ok \in BOOLEAN : SyncMove(ok)
    \/ \E failing \in SUBSET (1..MaxNotes) : SyncUpdate(failing)
    \/ SyncDelete
    \/ SyncCreate
    \/ FlushWrite
    \/ DetectUntracked
    \/ Rerun

Spec == Init /\ [][Next]_vars

\* ================================================================ export
\* deck name -> file stem ("::" becomes "__")
sanitize_filename(deck_name) ==
    IF deck_name = "P::Q" THEN "P__Q" ELSE deck_name

\* f"{prefix} {md}" as the lines it makes in the block: the text after the
\* prefix, and every further line of the text as a line of its own.
PrefixedLines(prefix, md) ==
    IF md = TwoLineMd
    THEN <<FieldLine(prefix, "a"), FieldLine("E:", "b")>>
    ELSE <<FieldLine(prefix, md)>>

RECURSIVE ConcatAll(_)
ConcatAll(seqs) ==
    IF seqs = <<>> THEN <<>> ELSE Head(seqs) \o ConcatAll(Tail(seqs))

\* AnkiNote.to_markdown / format_note: the id marker, then the lines of every
\* field of the type that has a value, in the order of the field mappings.
format_note(note_id, note) ==
    LET maps == FieldMappings(note.note_type)
        kept == SelectSeq(maps, LAMBDA m :
                   /\ Get(note.fields, m[1], "") # ""
                   /\ (ConvertBack(note.fields[m[1]]) # "" \/ m[3]))
    IN  <<NoteIdLine(note_id)>>
        \o ConcatAll([i \in 1..Len(kept) |->
                PrefixedLines(kept[i][2], ConvertBack(note.fields[kept[i][1]]))])

\* extract_note_blocks: the blocks that start with an id marker, as an
\* ordered dict (a key met again keeps its place and takes the new block).
RECURSIVE NoteBlocks(_, _)
NoteBlocks(blocks, acc) ==
    IF blocks = <<>> THEN acc
    ELSE LET b == Head(blocks)
             hit == {i \in DOMAIN acc : acc[i][1] = b[1].n}
         IN  IF b[1].k # "note_id" THEN NoteBlocks(Tail(blocks), acc)
             ELSE IF hit = {} THEN NoteBlocks(Tail(blocks), Append(acc, <<b[1].n, b>>))
             ELSE NoteBlocks(Tail(blocks),
                     [acc EXCEPT ![CHOOSE i \in hit : TRUE] = <<b[1].n, b>>])

extract_note_blocks(cards_content) == NoteBlocks(SplitBlocks(cards_content, <<>>), <<>>)

\* has_untracked_notes: some block carries no note id.
has_untracked_notes_never(cards_content) == FALSE

has_untracked_notes(cards_content) ==
    LET blocks == SplitBlocks(cards_content, <<>>)
    IN  \E i \in DOMAIN blocks : from_block(blocks[i]).note_id = None

\* FileState.from_file of the export direction.
export_from_file(file_path, raw_content) ==
    LET ex == extract_deck_id(raw_content)
    IN  [file_path |-> file_path,
         raw_content |-> raw_content,
         deck_id |-> ex[1],
         existing_blocks |-> extract_note_blocks(ex[2]),
         has_untracked |-> has_untracked_notes(ex[2])]

RECURSIVE SortedSeqDescending(_)
SortedSeqDescending(S) ==
    IF S = {} THEN <<>>
    ELSE LET m == CHOOSE x \in S : \A y \in S : x >= y
         IN  <<m>> \o SortedSeqDescending(S \ {m})

RECURSIVE SortedSeq(_)
SortedSeq(S) ==
    IF S = {} THEN <<>>
    ELSE LET m == CHOOSE x \in S : \A y \in S : x <= y
         IN  <<m>> \o SortedSeq(S \ {m})

\* _format_blocks: note id -> block, for the managed notes of the deck.
format_blocks(ids, snapshot) ==
    [nid \in {n \in ids : n \in DOMAIN snapshot.notes
                          /\ snapshot.notes[n].note_type \in SUPPORTED_NOTE_TYPES}
        |-> format_note(nid, snapshot.notes[nid])]

NoFile == [file_path |-> NoneStr]

\* _sync_deck: [result, has_content, new_content]
sync_deck(deck_name, deck_id, snapshot, existing_file) ==
    LET block_by_id == format_blocks(Get(snapshot.deck_note_ids, deck_name, {}), snapshot)
        old == IF existing_file = NoFile THEN <<>> ELSE existing_file.existing_blocks
        old_ids == {old[i][1] : i \in DOMAIN old}
        keep == SelectSeq(old, LAMBDA e : e[1] \in DOMAIN block_by_id)
        same == SelectSeq(keep, LAMBDA e : e[2] = block_by_id[e[1]])
        new_ids == SortedSeq(DOMAIN block_by_id \ old_ids)
        markdown_blocks == [i \in 1..Len(keep) |-> block_by_id[keep[i][1]]]
                           \o [i \in 1..Len(new_ids) |-> block_by_id[new_ids[i]]]
    IN  IF DOMAIN block_by_id = {}
        THEN [result |-> [deck_name |-> deck_name, total_notes |-> 0, updated |-> 0,
                          created |-> 0, deleted |-> 0, moved |-> 0, skipped |-> 0],
              has_content |-> FALSE, new_content |-> <<>>]
        ELSE [result |-> [deck_name |-> deck_name,
                          total_notes |-> Len(markdown_blocks),
                          updated |-> Len(keep) - Len(same),
                          created |-> Len(new_ids),
                          deleted |-> Len(old) - Len(keep),
                          moved |-> 0,
                          skipped |-> Len(same)],
              has_content |-> TRUE,
              new_content |-> <<DeckIdLine(deck_id)>> \o Join(markdown_blocks)]

\* Phase 6: the blocks of a file whose id marker names no note of Anki go.
drop_orphan_blocks(content, all_note_ids) ==
    LET ex == extract_deck_id(content)
        blocks == SplitBlocks(ex[2], <<>>)
        kept == SelectSeq(blocks, LAMBDA b :
                   ~(b[1].k = "note_id" /\ b[1].n \notin all_note_ids))
    IN  IF Len(kept) = Len(blocks) THEN content
        ELSE (IF ex[1] = None THEN <<>> ELSE <<content[1]>>) \o Join(kept)

DeckOrder == <<"A", "B">>

\* sorted(anki.deck_names_and_ids)
sorted_decks(snapshot) ==
    SelectSeq(DeckOrder, LAMBDA d : d \in DOMAIN snapshot.deck_names_and_ids)

existing_file_of(deck_id) ==
    IF deck_id \in DOMAIN files_by_deck_id
    THEN files_by_path[files_by_deck_id[deck_id]]
    ELSE NoFile

\* export_collection, phases 1 and 2: fetch, read every file, look for
\* blocks without id.
\* files_with_untracked of export_collection: the files named in the warning.
files_with_untracked(read) == {p \in DOMAIN read : read[p].has_untracked}

ExportCollectionStart ==
    /\ pc = "x_start"
    /\ args.op = "export_collection"
    /\ anki' = fetch
    /\ calls' = calls \o fetch_calls(DOMAIN rNotes)
    /\ LET read == [p \in DOMAIN files |-> export_from_file(p, files[p])]
           ids == {read[p].deck_id : p \in DOMAIN read} \ {None}
       IN  /\ files_by_path' = read
           /\ \E by_id \in [ids -> DOMAIN read] :
                /\ \A d \in ids : read[by_id[d]].deck_id = d
                /\ files_by_deck_id' = by_id
           /\ pc' = IF \E p \in DOMAIN read : read[p].has_untracked
                    THEN "x_prompt" ELSE "x_rename"
    /\ UNCHANGED <<files, rDecks, rNotes, raised, idx, results, args, answers,
                   importVars>>

\* input(...).strip().lower() of export_collection and export_deck
ExportPrompt(answer) ==
    /\ pc = "x_prompt"
    /\ answers' = Append(answers, answer)
    /\ pc' = IF Normalize(answer) # "y" THEN "cancelled"
             ELSE IF args.op = "export_collection" THEN "x_rename"
             ELSE "x_deck_sync"
    /\ UNCHANGED <<files, rDecks, rNotes, raised, idx, results, args, anki, calls,
                   files_by_path, files_by_deck_id, importVars>>

\* Phase 3: rename the files of decks renamed in Anki.  The FileState built
\* after the first rename lacks has_untracked: TypeError.
needs_rename(snapshot) ==
    {d \in DOMAIN files_by_deck_id :
        /\ d \in DOMAIN snapshot.id_to_deck_name
        /\ files_by_deck_id[d] # sanitize_filename(snapshot.id_to_deck_name[d])}

ExportRename ==
    /\ pc = "x_rename"
    /\ IF needs_rename(anki) = {}
       THEN /\ pc' = "x_sync"
            /\ idx' = 1
            /\ UNCHANGED <<files, raised, files_by_path>>
       ELSE \E d \in needs_rename(anki) :
              LET old_path == files_by_deck_id[d]
                  new_path == sanitize_filename(anki.id_to_deck_name[d])
              IN  /\ files' = Put(Drop(files, {old_path}), new_path, files[old_path])
                  /\ files_by_path' = Drop(files_by_path, {old_path})
                  /\ pc' = "raised"
                  /\ raised' = "TypeError"
                  /\ UNCHANGED idx
    /\ UNCHANGED <<rDecks, rNotes, results, args, anki, calls, files_by_deck_id,
                   answers, importVars>>

\* Phases 4 and 5, one deck of the loop.
relevant_decks(snapshot) ==
    DOMAIN snapshot.deck_note_ids
    \cup {snapshot.id_to_deck_name[d] :
            d \in DOMAIN files_by_deck_id \cap DOMAIN snapshot.id_to_deck_name}

ExportSync ==
    /\ pc = "x_sync"
    /\ LET decks == sorted_decks(anki)
           deck_name == decks[idx]
           deck_id == anki.deck_names_and_ids[deck_name]
           existing_file == existing_file_of(deck_id)
           out == sync_deck(deck_name, deck_id, anki, existing_file)
           write == /\ out.has_content
                    /\ (existing_file = NoFile
                        \/ existing_file.raw_content # out.new_content)
       IN  /\ IF deck_name \in relevant_decks(anki) /\ out.has_content
              THEN /\ results' = Append(results, out.result)
                   /\ files' = IF write
                               THEN Put(files, sanitize_filename(deck_name), out.new_content)
                               ELSE files
              ELSE UNCHANGED <<files, results>>
           /\ IF idx < Len(decks)
              THEN idx' = idx + 1 /\ pc' = "x_sync"
              ELSE idx' = idx /\ pc' = "x_orphans"
    /\ UNCHANGED <<rDecks, rNotes, raised, args, anki, calls, files_by_path,
                   files_by_deck_id, answers, importVars>>

\* Phase 6: delete orphaned deck files and orphaned note blocks.
ExportOrphans ==
    /\ pc = "x_orphans"
    /\ IF args.keep_orphans
       THEN UNCHANGED files
       ELSE LET anki_deck_ids == {anki.deck_names_and_ids[d] :
                                     d \in DOMAIN anki.deck_names_and_ids}
                unlinked == {files_by_deck_id[d] :
                               d \in DOMAIN files_by_deck_id \ anki_deck_ids}
                left == Drop(files, unlinked)
            IN  files' = [p \in DOMAIN left |->
                             drop_orphan_blocks(left[p], DOMAIN anki.notes)]
    /\ pc' = "done"
    /\ UNCHANGED <<rDecks, rNotes, raised, idx, results, args, anki, calls,
                   files_by_path, files_by_deck_id, answers, importVars>>

\* export_deck up to the prompt.
ExportDeckStart ==
    /\ pc = "x_start"
    /\ args.op = "export_deck"
    /\ anki' = fetch
    /\ calls' = calls \o fetch_calls(DOMAIN rNotes)
    /\ LET output_path == sanitize_filename(args.deck_name)
       IN  IF args.deck_name \notin DOMAIN rDecks
           THEN /\ pc' = "raised"
                /\ raised' = "ValueError"
                /\ UNCHANGED files_by_path
           ELSE /\ UNCHANGED raised
                /\ IF output_path \in DOMAIN files
                   THEN /\ files_by_path' =
                              (output_path :> export_from_file(output_path, files[output_path]))
                        /\ pc' = IF has_untracked_notes(extract_deck_id(files[output_path])[2])
                                 THEN "x_prompt" ELSE "x_deck_sync"
                   ELSE /\ UNCHANGED files_by_path
                        /\ pc' = "x_deck_sync"
    /\ UNCHANGED <<files, rDecks, rNotes, idx, results, args, files_by_deck_id,
                   answers, importVars>>

\* export_deck after the prompt: sync the deck into its file.
ExportDeckSync ==
    /\ pc = "x_deck_sync"
    /\ LET output_path == sanitize_filename(args.deck_name)
           existing_file == IF output_path \in DOMAIN files_by_path
                            THEN files_by_path[output_path] ELSE NoFile
           out == sync_deck(args.deck_name, anki.deck_names_and_ids[args.deck_name],
                            anki, existing_file)
       IN  /\ results' = Append(results, out.result)
           /\ files' = IF /\ out.has_content
                          /\ (existing_file = NoFile
                              \/ existing_file.raw_content # out.new_content)
                       THEN Put(files, output_path, out.new_content)
                       ELSE files
    /\ pc' = "done"
    /\ UNCHANGED <<rDecks, rNotes, raised, idx, args, anki, calls, files_by_path,
                   files_by_deck_id, answers, importVars>>

\* Disk and Anki before an export: the local files of the import model, or
\* file B alone; Anki may also hold a deck "B" (id 12), and note 1 or note 2
\* may be in it.
ExportFiles ==
    InitFiles \cup {[p \in {"B"} |-> f[p]] : f \in {f \in InitFiles : "B" \in DOMAIN f}}

ExportArgs ==
    {[op |-> "export_collection", deck_name |-> "", keep_orphans |-> k] : k \in BOOLEAN}
    \cup {[op |-> "export_deck", deck_name |-> d, keep_orphans |-> FALSE] :
             d \in {"A", "B"}}

InitExport ==
    /\ files \in ExportFiles
    /\ rDecks \in {("A" :> 10), ("A" :> 10) @@ ("B" :> 12)}
    /\ \E n1 \in RemoteNote1 \cup {1 :> ClozeNote("ha", "B")},
          n2 \in RemoteNote2 \cup {2 :> ClozeNote("hb", "B")} :
          /\ rNotes = n1 @@ n2
          /\ \A n \in DOMAIN rNotes : rNotes[n].deck \in DOMAIN rDecks
    /\ rNext = 20
    /\ args \in ExportArgs
    /\ pc = "x_start"
    /\ only_add_new = FALSE
    /\ raised = ""
    /\ run = 1
    /\ file_states = <<>>
    /\ global_note_ids = {}
    /\ md_deck_ids = {}
    /\ anki = NoAnki
    /\ idx = 0
    /\ cur = NoCur
    /\ results = <<>>
    /\ pending_writes = <<>>
    /\ calls = <<>>
    /\ untracked_decks = {}
    /\ history = <<>>
    /\ files_by_path = <<>>
    /\ files_by_deck_id = <<>>
    /\ answers = <<>>

NextExport ==
    \/ ExportCollectionStart
    \/ \E answer \in Answers : ExportPrompt(answer)
    \/ ExportRename
    \/ ExportSync
    \/ ExportOrphans
    \/ ExportDeckStart
    \/ ExportDeckSync

SpecExport == InitExport /\ [][NextExport]_vars

\* ================================================================ run_ma
\* run_ma after import_collection has returned: the untracked decks are
\* listed and their notes deleted if the caller answers 'y'.
cli_confirms_unless_no(answer) == Normalize(answer) # "n"

cli_confirms(answer) == Normalize(answer) = "y"

RECURSIVE DeleteUntracked(_, _)
DeleteUntracked(cs, uds) ==
    IF uds = {} THEN cs
    ELSE LET ud == CHOOSE u \in uds : TRUE
         IN  DeleteUntracked(Append(cs, Call("deleteNotes", ud.deck_name, ud.note_ids)),
                             uds \ {ud})

ConfirmUntracked(answer) ==
    /\ pc = "done"
    /\ untracked_decks # {}
    /\ answers' = Append(answers, answer)
    /\ IF cli_confirms(answer)
       THEN /\ rNotes' = Drop(rNotes, UNION {ud.note_ids : ud \in untracked_decks})
            /\ calls' = DeleteUntracked(calls, untracked_decks)
       ELSE UNCHANGED <<rNotes, calls>>
    /\ pc' = "cli_done"
    /\ UNCHANGED <<files, rDecks, rNext, only_add_new, raised, run, file_states,
                   global_note_ids, md_deck_ids, anki, idx, cur, results,
                   pending_writes, untracked_decks, history, args, files_by_path,
                   files_by_deck_id>>

\* Anki before run_ma: as for import_collection, and possibly a second deck
\* "B" (id 12) that holds note 2.
InitCli ==
    /\ files \in InitFiles
    /\ rDecks \in {("A" :> 10), ("A" :> 10) @@ ("B" :> 12)}
    /\ \E n1 \in RemoteNote1 \cup {1 :> ClozeNote("ha", "B")},
          n2 \in RemoteNote2 \cup {2 :> ClozeNote("hb", "B")} :
          /\ rNotes = n1 @@ n2
          /\ \A n \in DOMAIN rNotes : rNotes[n].deck \in DOMAIN rDecks
          /\ "B" \in DOMAIN rDecks => \E n \in DOMAIN rNotes : rNotes[n].deck = "B"
    /\ rNext = 20
    /\ only_add_new = FALSE
    /\ pc = "start"
    /\ raised = ""
    /\ run = 1
    /\ file_states = <<>>
    /\ global_note_ids = {}
    /\ md_deck_ids = {}
    /\ anki = NoAnki
    /\ idx = 0
    /\ cur = NoCur
    /\ results = <<>>
    /\ pending_writes = <<>>
    /\ calls = <<>>
    /\ untracked_decks = {}
    /\ history = <<>>
    /\ args = [op |-> "run_ma", deck_name |-> "", keep_orphans |-> FALSE]
    /\ files_by_path = <<>>
    /\ files_by_deck_id = <<>>
    /\ answers = <<>>

NextCli ==
    \/ ImportStart
    \/ Fetch
    \/ \E answer \in Answers : PromptInvalidIds(answer)
    \/ SyncResolve
    \/ \E ok \in BOOLEAN : SyncMove(ok)
    \/ \E failing \in SUBSET (1..MaxNotes) : SyncUpdate(failing)
    \/ SyncDelete
    \/ SyncCreate
    \/ FlushWrite
    \/ DetectUntracked
    \/ \E answer \in Answers : ConfirmUntracked(answer)

SpecCli == InitCli /\ [][NextCli]_vars

\* ================================================== import, foreign note
\* import_collection over a collection in which Anki may hold a note of a
\* foreign note type ("Basic") that its search answers with.
InitForeign ==
    /\ files \in InitFiles
    /\ rDecks = ("A" :> 10)
    /\ \E n1 \in RemoteNote1, n2 \in RemoteNote2,
          n3 \in {<<>>, 3 :> [note_type |-> "Basic",
                              fields |-> [f \in {"Front", "Back"} |-> "ha"],
                              deck |-> "A"]} :
          rNotes = n1 @@ n2 @@ n3
    /\ rNext = 20
    /\ only_add_new = FALSE
    /\ pc = "start"
    /\ raised = ""
    /\ run = 1
    /\ file_states = <<>>
    /\ global_note_ids = {}
    /\ md_deck_ids = {}
    /\ anki = NoAnki
    /\ idx = 0
    /\ cur = NoCur
    /\ results = <<>>
    /\ pending_writes = <<>>
    /\ calls = <<>>
    /\ untracked_decks = {}
    /\ history = <<>>
    /\ args = [op |-> "import_collection", deck_name |-> "", keep_orphans |-> FALSE,
               orig |-> [files |-> files, rNotes |-> rNotes, rNext |-> rNext]]
    /\ files_by_path = <<>>
    /\ files_by_deck_id = <<>>
    /\ answers = <<>>

NextForeign ==
    \/ ImportStart
    \/ Fetch
    \/ \E answer \in Answers : PromptInvalidIds(answer)
    \/ SyncResolve
    \/ \E ok \in BOOLEAN : SyncMove(ok)
    \/ \E failing \in SUBSET (1..MaxNotes) : SyncUpdate(failing)
    \/ SyncDelete
    \/ SyncCreate
    \/ FlushWrite
    \/ DetectUntracked

SpecForeign == InitForeign /\ [][NextForeign]_vars

\* ========================================================= import, one file
\* import_collection over a single file "A" linked to deck "A" by its marker,
\* in both modes.  The blocks: Cloze notes with and without the optional
\* Extra field, with an empty or no mandatory Text field, with and without
\* an id.
BodyNoExtra == << FieldLine("T:", "a") >>
BodyNoText == << FieldLine("E:", "a") >>

FieldBlocks ==
    { <<NoteIdLine(1)>> \o BodyA, <<NoteIdLine(1)>> \o BodyNoExtra,
      <<NoteIdLine(1)>> \o BodyEmpty, <<NoteIdLine(2)>> \o BodyB,
      <<NoteIdLine(1)>> \o BodyNoText, BodyB, BodyEmpty }

FieldBlockSeqs(max) == UNION {[1..n -> FieldBlocks] : n \in 0..max}

PlainClozeNote(text, deck) ==
    [ClozeNote(text, deck) EXCEPT !.fields = [@ EXCEPT !["Extra"] = ""]]

InitFields ==
    /\ \E ba \in FieldBlockSeqs(MaxNotes) : files = ("A" :> FileContent(10, ba))
    /\ rDecks = ("A" :> 10)
    /\ \E n1 \in {<<>>, 1 :> ClozeNote("ha", "A"), 1 :> PlainClozeNote("ha", "A")},
          n2 \in RemoteNote2 \cup {2 :> ClozeNote("ha", "A")} : rNotes = n1 @@ n2
    /\ rNext = 20
    /\ only_add_new \in BOOLEAN
    /\ pc = "start"
    /\ raised = ""
    /\ run = 1
    /\ file_states = <<>>
    /\ global_note_ids = {}
    /\ md_deck_ids = {}
    /\ anki = NoAnki
    /\ idx = 0
    /\ cur = NoCur
    /\ results = <<>>
    /\ pending_writes = <<>>
    /\ calls = <<>>
    /\ untracked_decks = {}
    /\ history = <<>>
    /\ args = [op |-> "import_collection", deck_name |-> "", keep_orphans |-> FALSE]
    /\ files_by_path = <<>>
    /\ files_by_deck_id = <<>>
    /\ answers = <<>>

SpecFields == InitFields /\ [][Next]_vars

\* ======================================================= export, one file
\* Exports over a single file "A" with blocks of the notes 1, 2 and 3 in any
\* order, or a block without id; each of the three notes is in deck "A" or
\* is not in Anki.
OrderBlocks ==
    { <<NoteIdLine(1)>> \o BodyA, <<NoteIdLine(2)>> \o BodyB,
      <<NoteIdLine(3)>> \o BodyA, BodyA }

OrderNotes ==
    {n1 @@ n2 @@ n3 :
        n1 \in {<<>>, 1 :> ClozeNote("ha", "A")},
        n2 \in {<<>>, 2 :> ClozeNote("hb", "A")},
        n3 \in {<<>>, 3 :> ClozeNote("ha", "A")}}

InitOrder ==
    /\ files \in {<<>>} \cup
          {"A" :> FileContent(da, ba) :
              da \in {None, 10}, ba \in UNION {[1..n -> OrderBlocks] : n \in 0..MaxNotes}}
    /\ rDecks = ("A" :> 10)
    /\ rNotes \in OrderNotes
    /\ rNext = 20
    /\ args \in {a \in ExportArgs : a.deck_name # "B"}
    /\ pc = "x_start"
    /\ only_add_new = FALSE
    /\ raised = ""
    /\ run = 1
    /\ file_states = <<>>
    /\ global_note_ids = {}
    /\ md_deck_ids = {}
    /\ anki = NoAnki
    /\ idx = 0
    /\ cur = NoCur
    /\ results = <<>>
    /\ pending_writes = <<>>
    /\ calls = <<>>
    /\ untracked_decks = {}
    /\ history = <<>>
    /\ files_by_path = <<>>
    /\ files_by_deck_id = <<>>
    /\ answers = <<>>

SpecOrder == InitOrder /\ [][NextExport]_vars

\* ============================================================== round trip
\* A note of Anki is formatted as a block (AnkiNote.to_markdown), the block is
\* the content of a file, and the file is parsed (Note.from_block).  The
\* notes: every managed type, id 1 or 2, each field of the type empty, the
\* HTML of one of the texts or the HTML of two lines.
HtmlTexts == {""} \cup {Convert(md) : md \in MdTexts \cup {TwoLineMd}}

RoundNotes ==
    UNION {{[note_type |-> ty, fields |-> fs, deck |-> "A"] :
               fs \in [TypeFields(ty) -> HtmlTexts]} : ty \in SUPPORTED_NOTE_TYPES}

RoundFormat ==
    /\ pc = "rt_format"
    /\ LET nid == CHOOSE n \in DOMAIN rNotes : TRUE
       IN  files' = ("A" :> format_note(nid, rNotes[nid]))
    /\ pc' = "rt_parse"
    /\ UNCHANGED <<rDecks, rNotes, raised, anki, idx, results, calls, args,
                   files_by_path, files_by_deck_id, answers, importVars>>

RoundParse ==
    /\ pc = "rt_parse"
    /\ file_states' = <<from_file("A", files["A"])>>
    /\ pc' = "rt_done"
    /\ UNCHANGED <<files, remoteVars, only_add_new, raised, run, global_note_ids,
                   md_deck_ids, anki, idx, cur, results, pending_writes, calls,
                   untracked_decks, history, exportVars>>

InitRound ==
    /\ files = <<>>
    /\ rDecks = ("A" :> 10)
    /\ \E nid \in 1..2, note \in RoundNotes : rNotes = (nid :> note)
    /\ rNext = 20
    /\ only_add_new = FALSE
    /\ pc = "rt_format"
    /\ raised = ""
    /\ run = 1
    /\ file_states = <<>>
    /\ global_note_ids = {}
    /\ md_deck_ids = {}
    /\ anki = NoAnki
    /\ idx = 0
    /\ cur = NoCur
    /\ results = <<>>
    /\ pending_writes = <<>>
    /\ calls = <<>>
    /\ untracked_decks = {}
    /\ history = <<>>
    /\ args = [op |-> "round_trip", deck_name |-> "", keep_orphans |-> FALSE]
    /\ files_by_path = <<>>
    /\ files_by_deck_id = <<>>
    /\ answers = <<>>

NextRound ==
    \/ RoundFormat
    \/ RoundParse

SpecRound == InitRound /\ [][NextRound]_vars

\* ================================================= deckops import_collection
\* The import of the deckops package: import_collection lists the decks,
\* pre-parses the files, and calls import_file for each file; import_file
\* talks to Anki and writes its file as it goes.  The files of this part hold
\* DeckOpsCloze blocks (T:, E:, note_id comments); a note has one card, whose
\* id is the note's id.
DECKOPS_NOTE_TYPES ==
    << [name |-> "DeckOpsQA", id_type |-> "card_id",
        field_mappings |-> << <<"Question", "Q:", TRUE>>,
                              <<"Answer", "A:", TRUE>>,
                              <<"Extra", "E:", FALSE>> >>],
       [name |-> "DeckOpsCloze", id_type |-> "note_id",
        field_mappings |-> << <<"Text", "T:", TRUE>>,
                              <<"Extra", "E:", FALSE>> >>] >>

DeckopsMappings(note_type) ==
    DECKOPS_NOTE_TYPES[CHOOSE i \in DOMAIN DECKOPS_NOTE_TYPES :
                          DECKOPS_NOTE_TYPES[i].name = note_type].field_mappings

DECKOPS_PREFIX_TO_FIELD ==
    [p \in {"Q:", "A:", "T:", "E:"} |->
        IF p = "Q:" THEN "Question" ELSE IF p = "A:" THEN "Answer"
        ELSE IF p = "T:" THEN "Text" ELSE "Extra"]

\* The first field, in the order of the block, that a unique prefix names.
RECURSIVE DetectByFields(_)
DetectByFields(fields) ==
    IF fields = <<>> THEN "DeckOpsQA"
    ELSE IF Head(fields)[1] \in {"Question", "Answer"} THEN "DeckOpsQA"
    ELSE IF Head(fields)[1] = "Text" THEN "DeckOpsCloze"
    ELSE DetectByFields(Tail(fields))

detect_note_type(card_id, note_id, fields) ==
    IF note_id # None THEN "DeckOpsCloze"
    ELSE IF card_id # None THEN "DeckOpsQA"
    ELSE DetectByFields(fields)

\* line.startswith("\\" + prefix) for a prefix of ALL_PREFIX_TO_FIELD.
is_escaped_prefix(line) ==
    \E p \in DOMAIN DECKOPS_PREFIX_TO_FIELD : line.k = "\\" \o p

\* line[1:] of a line with an escaped prefix.
unescaped(line) ==
    LET p == CHOOSE p \in DOMAIN DECKOPS_PREFIX_TO_FIELD : line.k = "\\" \o p
    IN  RawLine(FieldLine(p, line.t))

RECURSIVE ParseCardLines(_, _, _)
ParseCardLines(lines, i, acc) ==
    IF i > Len(lines) THEN acc
    ELSE LET line == lines[i] IN
         IF line = FenceLine
         THEN ParseCardLines(lines, i + 1,
                 [acc EXCEPT !.in_code_block = ~@,
                             !.fields = AppendContent(@, RawLine(line))])
         ELSE IF line.k = "card_id"
         THEN ParseCardLines(lines, i + 1, [acc EXCEPT !.card_id = line.n])
         ELSE IF line.k = "note_id"
         THEN ParseCardLines(lines, i + 1, [acc EXCEPT !.note_id = line.n])
         ELSE IF acc.in_code_block
         THEN ParseCardLines(lines, i + 1,
                 [acc EXCEPT !.fields = AppendContent(@, RawLine(line))])
         ELSE IF is_escaped_prefix(line)
         THEN ParseCardLines(lines, i + 1,
                 [acc EXCEPT !.fields = AppendContent(@, unescaped(line))])
         ELSE IF line.k \in DOMAIN DECKOPS_PREFIX_TO_FIELD
         THEN LET field_name == DECKOPS_PREFIX_TO_FIELD[line.k] IN
              IF field_name \in FieldNames(acc.fields)
              THEN [acc EXCEPT !.error = "duplicate_field"]
              ELSE ParseCardLines(lines, i + 1,
                      [acc EXCEPT !.fields = Append(@, <<field_name, line.t>>)])
         ELSE ParseCardLines(lines, i + 1,
                 [acc EXCEPT !.fields = AppendContent(@, RawLine(line))])

parse_card_block(block) ==
    LET acc == ParseCardLines(block, 1,
                   [card_id |-> None, note_id |-> None, fields |-> <<>>, error |-> "",
                    in_code_block |-> FALSE])
    IN  [card_id |-> acc.card_id,
         note_id |-> acc.note_id,
         note_type |-> detect_note_type(acc.card_id, acc.note_id, acc.fields),
         fields |-> acc.fields,
         raw_content |-> block,
         error |-> acc.error]

\* parse_markdown_file, as a FileState: the deck id of parse_deck_id and the
\* cards; a ValueError of a block is the error of the file.
parse_markdown_file(file_path, content) ==
    LET ex == extract_deck_id(content)
        blocks == SplitBlocks(ex[2], <<>>)
        cards == [i \in 1..Len(blocks) |-> parse_card_block(blocks[i])]
    IN  [file_path |-> file_path,
         raw_content |-> content,
         deck_id |-> ex[1],
         parsed_notes |-> cards,
         error |-> IF \E i \in DOMAIN cards : cards[i].error # ""
                   THEN "ValueError" ELSE ""]

validate_card(card) ==
    LET missing == SelectSeq(DeckopsMappings(card.note_type),
                      LAMBDA m : m[3] /\ FieldGet(card.fields, m[1]) = "")
    IN  [i \in 1..Len(missing) |-> "missing_mandatory_field"]

convert_fields_to_html(fields) ==
    [name \in FieldNames(fields) |-> Convert(FieldGet(fields, name))]

write_deck_id_to_file(content, deck_id) ==
    <<DeckIdLine(deck_id)>> \o extract_deck_id(content)[2]

\* import_collection up to the pre-parse: the decks are listed first.
LegacyListDecks ==
    /\ pc = "lg_start"
    /\ calls' = Append(calls, Call("deckNamesAndIds", "", {}))
    /\ anki' = [NoAnki EXCEPT !.deck_names_and_ids = rDecks]
    /\ pc' = "lg_check"
    /\ UNCHANGED <<files, remoteVars, only_add_new, raised, run, file_states,
                   global_note_ids, md_deck_ids, idx, cur, results,
                   pending_writes, untracked_decks, history, exportVars>>

card_ids(fs) ==
    {fs.parsed_notes[i].card_id : i \in DOMAIN fs.parsed_notes} \ {None}

\* duplicate_ids of the pre-parse: deck ids, card ids and note ids met twice.
legacy_duplicate_ids(fss) ==
    LET occ == UNION {{<<i, j>> : j \in DOMAIN fss[i].parsed_notes} : i \in DOMAIN fss}
        dup_cards == {fss[o[1]].parsed_notes[o[2]].card_id : o \in
                        {o \in occ : /\ fss[o[1]].parsed_notes[o[2]].card_id # None
                                     /\ \E q \in occ :
                                          /\ q # o
                                          /\ fss[q[1]].parsed_notes[q[2]].card_id
                                               = fss[o[1]].parsed_notes[o[2]].card_id}}
    IN  cross_file_duplicates(fss) \cup dup_cards

\* The pre-parse and the duplicate check of import_collection.
LegacyCheck ==
    /\ pc = "lg_check"
    /\ LET fss == [i \in 1..Len(md_files) |->
                      parse_markdown_file(md_files[i], files[md_files[i]])]
       IN  IF \E i \in DOMAIN fss : fss[i].error # ""
           THEN /\ pc' = "raised"
                /\ raised' = "parse_error"
                /\ UNCHANGED <<file_states, global_note_ids, idx>>
           ELSE /\ file_states' = fss
                /\ global_note_ids' = UNION {note_ids(fss[i]) : i \in DOMAIN fss}
                /\ IF legacy_duplicate_ids(fss) # {}
                   THEN pc' = "raised" /\ raised' = "duplicate_ids" /\ UNCHANGED idx
                   ELSE /\ UNCHANGED raised
                        /\ idx' = 1
                        /\ pc' = IF Len(fss) = 0 THEN "lg_done" ELSE "lg_deck"
    /\ UNCHANGED <<files, remoteVars, only_add_new, run, md_deck_ids, anki, cur,
                   results, pending_writes, calls, untracked_decks, history,
                   exportVars>>

\* import_file, deck detection: the deck of the file's deck id, or the deck
\* of the file's name, created when Anki has none; a new or missing deck id
\* is written to the file at once.
LegacyResolveDeck ==
    /\ pc = "lg_deck"
    /\ LET path == md_files[idx]
           dni == anki.deck_names_and_ids
           file_deck_id == extract_deck_id(files[path])[1]
           by_id == /\ Truthy(file_deck_id)
                    /\ \E d \in DOMAIN dni : dni[d] = file_deck_id
           deck_name == IF by_id THEN CHOOSE d \in DOMAIN dni : dni[d] = file_deck_id
                        ELSE path
           create == ~by_id /\ deck_name \notin DOMAIN dni
       IN  /\ IF create
              THEN /\ calls' = Append(calls, Call("createDeck", deck_name, {}))
                   /\ rDecks' = Put(rDecks, deck_name, rNext)
                   /\ rNext' = rNext + 1
                   /\ files' = [files EXCEPT ![path] = write_deck_id_to_file(@, rNext)]
                   /\ anki' = [anki EXCEPT !.deck_names_and_ids = Put(@, deck_name, rNext)]
              ELSE /\ UNCHANGED <<calls, rDecks, rNext, anki>>
                   /\ IF ~by_id /\ ~Truthy(file_deck_id)
                      THEN files' = [files EXCEPT
                                       ![path] = write_deck_id_to_file(@, dni[deck_name])]
                      ELSE UNCHANGED files
           /\ cur' = [NoCur EXCEPT !.deck_name = deck_name]
    /\ pc' = "lg_sync"
    /\ UNCHANGED <<rNotes, only_add_new, raised, run, file_states, global_note_ids,
                   md_deck_ids, idx, results, pending_writes, untracked_decks,
                   history, exportVars>>

\* Phase 0 of import_file.
legacy_valid(card) == validate_card(card) = <<>>

existing_cloze(cards, add_only) ==
    SelectSeq(Indices(cards),
        LAMBDA i : /\ legacy_valid(cards[i])
                   /\ cards[i].note_type = "DeckOpsCloze"
                   /\ Truthy(cards[i].note_id)
                   /\ ~add_only)

new_cloze(cards) ==
    SelectSeq(Indices(cards),
        LAMBDA i : /\ legacy_valid(cards[i])
                   /\ cards[i].note_type = "DeckOpsCloze"
                   /\ ~Truthy(cards[i].note_id))

RECURSIVE LegacyErrors(_)
LegacyErrors(cards) ==
    IF cards = <<>> THEN <<>>
    ELSE validate_card(Head(cards)) \o LegacyErrors(Tail(cards))

\* all(current.get(name) == value for name, value in html_fields.items())
legacy_fields_match(card, notes) ==
    LET html_fields == convert_fields_to_html(card.fields)
    IN  \A name \in DOMAIN html_fields :
           Get(notes[card.note_id].fields, name, NoneStr) = html_fields[name]

RECURSIVE LegacyApplyUpdates(_, _, _)
LegacyApplyUpdates(notes, cards, batch) ==
    IF batch = <<>> THEN notes
    ELSE LET card == cards[Head(batch)]
         IN  LegacyApplyUpdates(
                 remote_updateNoteFields(notes, card.note_id,
                                         convert_fields_to_html(card.fields)),
                 cards, Tail(batch))

\* The create batch of _create_new_cloze_notes, item by item.
RECURSIVE LegacyCreateBatch(_, _, _, _)
LegacyCreateBatch(st, cards, deck, batch) ==
    IF batch = <<>> THEN st
    ELSE LET i == Head(batch)
             html == convert_fields_to_html(cards[i].fields)
             refused == \E n \in DOMAIN st.notes :
                           /\ st.notes[n].note_type = "DeckOpsCloze"
                           /\ st.notes[n].fields["Text"] = Get(html, "Text", "")
             next == IF refused
                     THEN [st EXCEPT !.errors = Append(@, "create_failed")]
                     ELSE [notes |-> Put(st.notes, st.next,
                                        [note_type |-> "DeckOpsCloze",
                                         fields |-> [f \in {"Text", "Extra"} |->
                                                        Get(html, f, "")],
                                         deck |-> deck]),
                           next |-> st.next + 1,
                           id_assignments |-> Append(st.id_assignments, <<i, st.next>>),
                           errors |-> st.errors]
         IN  LegacyCreateBatch(next, cards, deck, Tail(batch))

\* _batch_write_ids_to_file: the check of the first lines of the new cards.
legacy_duplicate_first_lines(cards, id_assignments) ==
    \E a, b \in DOMAIN id_assignments :
        /\ a # b
        /\ cards[id_assignments[a][1]].note_id = None
        /\ cards[id_assignments[b][1]].note_id = None
        /\ cards[id_assignments[a][1]].raw_content[1]
             = cards[id_assignments[b][1]].raw_content[1]

RECURSIVE batch_write_ids(_, _, _)
batch_write_ids(content, cards, id_assignments) ==
    IF id_assignments = <<>> THEN content
    ELSE LET card == cards[Head(id_assignments)[1]]
             id_value == Head(id_assignments)[2]
             next == IF card.note_id # None
                     THEN replace_id_comment(content, card.note_id, id_value)
                     ELSE insert_id_comment(content, card.raw_content[1], id_value)
         IN  batch_write_ids(next, cards, Tail(id_assignments))

\* _import_existing_cloze_notes: [notes, calls, stale, batch, unsafe].
import_existing_cloze_notes(cards, existing, notes, deck_name) ==
    LET ids == {cards[i].note_id : i \in Range(existing)}
        known == ids \cap DOMAIN notes
        to_move == {n \in known : notes[n].deck # deck_name}
        batch == SelectSeq(existing,
                    LAMBDA i : /\ cards[i].note_id \in DOMAIN notes
                               /\ ~legacy_fields_match(cards[i], notes))
    IN  [unsafe |-> \E n \in known : notes[n].note_type # "DeckOpsCloze",
         stale |-> SelectSeq(existing, LAMBDA i : cards[i].note_id \notin DOMAIN notes),
         batch |-> batch,
         notes |-> LegacyApplyUpdates(remote_changeDeck(notes, to_move, deck_name),
                                      cards, batch),
         info |-> IF existing = <<>> THEN <<>> ELSE <<Call("notesInfo", "", ids)>>,
         calls |-> (IF known = {} THEN <<>> ELSE <<Call("cardsInfo", "", known)>>)
                   \o (IF to_move = {} THEN <<>>
                       ELSE <<Call("changeDeck", deck_name, to_move)>>)
                   \o (IF batch = <<>> THEN <<>>
                       ELSE <<Call("updateNoteFields", "",
                                  {cards[i].note_id : i \in Range(batch)})>>)]

\* _delete_orphaned_notes: [notes, calls, deleted].
delete_orphaned_notes(cards, deck_name, notes, global_cards, global_notes) ==
    LET md_card_ids == {cards[i].card_id : i \in
                          {i \in DOMAIN cards : cards[i].note_type = "DeckOpsQA"}}
                       \ {None}
        md_note_ids == {cards[i].note_id : i \in
                          {i \in DOMAIN cards : cards[i].note_type = "DeckOpsCloze"}}
                       \ {None}
        anki_qa == {n \in DOMAIN notes : /\ notes[n].note_type = "DeckOpsQA"
                                         /\ notes[n].deck = deck_name}
        anki_cloze == {n \in DOMAIN notes : /\ notes[n].note_type = "DeckOpsCloze"
                                            /\ notes[n].deck = deck_name}
        orphaned_qa == (anki_qa \ md_card_ids) \ global_cards
        orphaned_cloze == (anki_cloze \ md_note_ids) \ global_notes
    IN  [notes |-> Drop(notes, orphaned_qa \cup orphaned_cloze),
         deleted |-> Cardinality(orphaned_qa \cup orphaned_cloze),
         calls |-> <<Call("findCards", deck_name, {})>>
                   \o (IF orphaned_qa = {} THEN <<>>
                       ELSE <<Call("cardsInfo", "", orphaned_qa),
                              Call("deleteNotes", deck_name, orphaned_qa)>>)
                   \o <<Call("findCards", deck_name, {})>>
                   \o (IF anki_cloze = {} THEN <<>>
                       ELSE <<Call("cardsInfo", "", anki_cloze)>>)
                   \o (IF orphaned_cloze = {} THEN <<>>
                       ELSE <<Call("deleteNotes", deck_name, orphaned_cloze)>>)]

\* The phases of import_file after the first: [notes, next, calls,
\* id_assignments, result].
import_phases(cards, deck_name, add_only, notes, next, global_cards, global_notes, p1) ==
    LET p2 == delete_orphaned_notes(cards, deck_name, p1.notes, global_cards,
                                    global_notes)
        create == new_cloze(cards) \o p1.stale
        out == LegacyCreateBatch([notes |-> p2.notes, next |-> next,
                                  id_assignments |-> <<>>, errors |-> <<>>],
                                 cards, deck_name, create)
    IN  [notes |-> out.notes,
         next |-> out.next,
         id_assignments |-> out.id_assignments,
         calls |-> p1.calls \o p2.calls
                   \o (IF create = <<>> THEN <<>>
                       ELSE <<Call("addNote", deck_name,
                                  {a[2] : a \in Range(out.id_assignments)})>>),
         result |-> [deck_name |-> deck_name,
                     updated |-> Len(p1.batch),
                     created |-> Len(out.id_assignments),
                     deleted |-> p2.deleted,
                     moved |-> 0,
                     skipped |-> Len(existing_cloze(cards, add_only))
                                 - Len(p1.stale) - Len(p1.batch)
                                 + Len(SelectSeq(Indices(cards),
                                       LAMBDA i : /\ legacy_valid(cards[i])
                                                  /\ Truthy(cards[i].note_id)
                                                  /\ add_only)),
                     errors |-> LegacyErrors(cards) \o out.errors]]

\* import_file from the parse of the file to the write of the new ids.
LegacySyncFile ==
    /\ pc = "lg_sync"
    /\ LET path == md_files[idx]
           cards == parse_markdown_file(path, files[path]).parsed_notes
           p1 == import_existing_cloze_notes(cards,
                     existing_cloze(cards, only_add_new), rNotes, cur.deck_name)
           out == import_phases(cards, cur.deck_name, only_add_new, rNotes, rNext,
                     UNION {card_ids(file_states[i]) : i \in DOMAIN file_states},
                     global_note_ids, p1)
       IN  IF p1.unsafe
           THEN /\ calls' = calls \o p1.info
                /\ pc' = "raised"
                /\ raised' = "safety_check"
                /\ UNCHANGED <<files, rNotes, rNext, results, idx, cur>>
           ELSE /\ calls' = calls \o p1.info \o out.calls
                /\ rNotes' = out.notes
                /\ rNext' = out.next
                /\ IF legacy_duplicate_first_lines(cards, out.id_assignments)
                   THEN /\ pc' = "raised"
                        /\ raised' = "duplicate_first_lines"
                        /\ UNCHANGED <<files, results, idx, cur>>
                   ELSE /\ files' = [files EXCEPT
                                       ![path] = batch_write_ids(@, cards,
                                                                 out.id_assignments)]
                        /\ results' = Append(results, out.result)
                        /\ cur' = NoCur
                        /\ UNCHANGED raised
                        /\ IF idx < Len(md_files)
                           THEN idx' = idx + 1 /\ pc' = "lg_deck"
                           ELSE idx' = idx /\ pc' = "lg_done"
    /\ UNCHANGED <<rDecks, only_add_new, run, file_states, global_note_ids,
                   md_deck_ids, anki, pending_writes, untracked_decks, history,
                   exportVars>>

LegacyClozeNote(text, deck) ==
    [note_type |-> "DeckOpsCloze",
     fields |-> [f \in {"Text", "Extra"} |-> IF f = "Text" THEN text ELSE "ha"],
     deck |-> deck]

LegacyQANote(deck) ==
    [note_type |-> "DeckOpsQA",
     fields |-> [f \in {"Question", "Answer", "Extra"} |->
                    IF f = "Extra" THEN "" ELSE "ha"],
     deck |-> deck]

\* Anki before the run: the deck "A" (id 10), with the deck "B" (id 12) or
\* not; note 1 a cloze note of either deck or a QA note, note 2 a cloze note.
LegacyNote1 ==
    {<<>>} \cup {1 :> x : x \in {LegacyClozeNote("ha", "A"), LegacyClozeNote("hb", "A"),
                                LegacyClozeNote("ha", "B"), LegacyQANote("A")}}

LegacyNote2 == {<<>>, 2 :> LegacyClozeNote("hb", "A")}

\* The files A (one or two blocks, with a deck id or not) and B (absent, or
\* one block and no deck id).
LegacyFiles ==
    {("A" :> FileContent(da, ba)) @@ fb :
        da \in {None, 10},
        ba \in BlockSeqs(MaxNotes) \ {<<>>},
        fb \in {<<>>} \cup {"B" :> FileContent(None, <<b>>) :
                              b \in {BodyB, <<NoteIdLine(1)>> \o BodyA}}}

InitLegacy ==
    /\ files \in LegacyFiles
    /\ rDecks \in {"A" :> 10, ("A" :> 10) @@ ("B" :> 12)}
    /\ \E n1 \in LegacyNote1, n2 \in LegacyNote2 :
          /\ rNotes = n1 @@ n2
          /\ \A n \in DOMAIN rNotes : rNotes[n].deck \in DOMAIN rDecks
    /\ rNext = 20
    /\ only_add_new \in BOOLEAN
    /\ pc = "lg_start"
    /\ raised = ""
    /\ run = 1
    /\ file_states = <<>>
    /\ global_note_ids = {}
    /\ md_deck_ids = {}
    /\ anki = NoAnki
    /\ idx = 0
    /\ cur = NoCur
    /\ results = <<>>
    /\ pending_writes = <<>>
    /\ calls = <<>>
    /\ untracked_decks = {}
    /\ history = <<>>
    /\ args = [op |-> "deckops_import", deck_name |-> "", keep_orphans |-> FALSE]
    /\ files_by_path = <<>>
    /\ files_by_deck_id = <<>>
    /\ answers = <<>>

NextLegacy ==
    \/ LegacyListDecks
    \/ LegacyCheck
    \/ LegacyResolveDeck
    \/ LegacySyncFile

SpecLegacy == InitLegacy /\ [][NextLegacy]_vars

\* ========================================================= Choice answers
\* A file of one Choice block is parsed (Note.from_block) and the note is
\* validated (Note.validate).  The block: a question, C1 (with or without
\* text), C2 and C3 (absent, or with text), and an answer.
ChoiceBlocks ==
    {<<FieldLine("Q:", "a"), FieldLine("C1:", c1)>> \o c2 \o c3
        \o <<FieldLine("A:", answer)>> :
        c1 \in {"a", ""},
        c2 \in {<<>>, <<FieldLine("C2:", "a")>>, <<FieldLine("C2:", "")>>},
        c3 \in {<<>>, <<FieldLine("C3:", "b")>>},
        answer \in ChoiceAnswers \cup {"", "a"}}

ChoiceParse ==
    /\ pc = "ch_parse"
    /\ file_states' = <<from_file("A", files["A"])>>
    /\ pc' = IF file_states'[1].error # "" THEN "raised" ELSE "ch_validate"
    /\ raised' = IF file_states'[1].error # "" THEN "parse_error" ELSE raised
    /\ UNCHANGED <<files, remoteVars, only_add_new, run, global_note_ids,
                   md_deck_ids, anki, idx, cur, results, pending_writes, calls,
                   untracked_decks, history, exportVars>>

ChoiceValidate ==
    /\ pc = "ch_validate"
    /\ cur' = [NoCur EXCEPT !.errors = ValidationErrors(file_states[1].parsed_notes)]
    /\ pc' = "ch_done"
    /\ UNCHANGED <<files, remoteVars, only_add_new, raised, run, file_states,
                   global_note_ids, md_deck_ids, anki, idx, results,
                   pending_writes, calls, untracked_decks, history, exportVars>>

InitChoice ==
    /\ \E block \in ChoiceBlocks, n \in {None, 1} :
          files = ("A" :> (IF n = None THEN block ELSE <<NoteIdLine(n)>> \o block))
    /\ rDecks = ("A" :> 10)
    /\ rNotes = <<>>
    /\ rNext = 20
    /\ only_add_new = FALSE
    /\ pc = "ch_parse"
    /\ raised = ""
    /\ run = 1
    /\ file_states = <<>>
    /\ global_note_ids = {}
    /\ md_deck_ids = {}
    /\ anki = NoAnki
    /\ idx = 0
    /\ cur = NoCur
    /\ results = <<>>
    /\ pending_writes = <<>>
    /\ calls = <<>>
    /\ untracked_decks = {}
    /\ history = <<>>
    /\ args = [op |-> "validate", deck_name |-> "", keep_orphans |-> FALSE]
    /\ files_by_path = <<>>
    /\ files_by_deck_id = <<>>
    /\ answers = <<>>

NextChoice ==
    \/ ChoiceParse
    \/ ChoiceValidate

SpecChoice == InitChoice /\ [][NextChoice]_vars

\* ======================================================= parsing of a block
\* Note.from_block and parse_card_block applied to one block: field lines,
\* a note id comment, a code fence, a line of plain text and lines with an
\* escaped prefix, in any order.
MaxLines == 4

ParseAlphabet ==
    { FieldLine("T:", "a"), FieldLine("T:", "b"), FieldLine("E:", "a"),
      NoteIdLine(1), FenceLine, TextLine("x"), EscapedLine("E:", "c") }

ParseBlocks == UNION {[1..n -> ParseAlphabet] : n \in 1..MaxLines}

ParseNote ==
    /\ pc = "ps_note"
    /\ cur' = [block |-> cur.block, note |-> from_block(cur.block)]
    /\ pc' = "ps_card"
    /\ UNCHANGED <<files, remoteVars, only_add_new, raised, run, file_states,
                   global_note_ids, md_deck_ids, anki, idx, results,
                   pending_writes, calls, untracked_decks, history, exportVars>>

ParseCard ==
    /\ pc = "ps_card"
    /\ cur' = [block |-> cur.block, note |-> cur.note,
               card |-> parse_card_block(cur.block)]
    /\ pc' = "ps_done"
    /\ UNCHANGED <<files, remoteVars, only_add_new, raised, run, file_states,
                   global_note_ids, md_deck_ids, anki, idx, results,
                   pending_writes, calls, untracked_decks, history, exportVars>>

InitParse ==
    /\ \E block \in ParseBlocks : cur = [block |-> block]
    /\ files = <<>>
    /\ rDecks = <<>>
    /\ rNotes = <<>>
    /\ rNext = 20
    /\ only_add_new = FALSE
    /\ pc = "ps_note"
    /\ raised = ""
    /\ run = 1
    /\ file_states = <<>>
    /\ global_note_ids = {}
    /\ md_deck_ids = {}
    /\ anki = NoAnki
    /\ idx = 0
    /\ results = <<>>
    /\ pending_writes = <<>>
    /\ calls = <<>>
    /\ untracked_decks = {}
    /\ history = <<>>
    /\ args = [op |-> "parse", deck_name |-> "", keep_orphans |-> FALSE]
    /\ files_by_path = <<>>
    /\ files_by_deck_id = <<>>
    /\ answers = <<>>

NextParse ==
    \/ ParseNote
    \/ ParseCard

SpecParse == InitParse /\ [][NextParse]_vars

\* ========================================================== type inference
\* Note.infer_note_type applied to the fields of a block, and to the same
\* fields in the opposite order with another content.
FieldUniverse ==
    <<"Question", "Answer", "Front", "Back", "Text", "Input", "Choice 1",
      "Choice 2", "Extra">>

FieldsOf(names, content) ==
    LET present == SelectSeq(FieldUniverse, LAMBDA n : n \in names)
    IN  [i \in DOMAIN present |-> <<present[i], content>>]

Reversed(s) == [i \in DOMAIN s |-> s[Len(s) + 1 - i]]

InferType ==
    /\ pc = "if_first"
    /\ cur' = [fields |-> cur.fields, other |-> cur.other,
               type |-> infer_note_type(cur.fields)]
    /\ pc' = "if_other"
    /\ UNCHANGED <<files, remoteVars, only_add_new, raised, run, file_states,
                   global_note_ids, md_deck_ids, anki, idx, results,
                   pending_writes, calls, untracked_decks, history, exportVars>>

InferOther ==
    /\ pc = "if_other"
    /\ cur' = [fields |-> cur.fields, other |-> cur.other, type |-> cur.type,
               other_type |-> infer_note_type(cur.other)]
    /\ pc' = "if_done"
    /\ UNCHANGED <<files, remoteVars, only_add_new, raised, run, file_states,
                   global_note_ids, md_deck_ids, anki, idx, results,
                   pending_writes, calls, untracked_decks, history, exportVars>>

InitInfer ==
    /\ \E names \in SUBSET Range(FieldUniverse), content \in {"a", ""} :
          cur = [fields |-> FieldsOf(names, content),
                 other |-> Reversed(FieldsOf(names, IF content = "" THEN "b" ELSE ""))]
    /\ files = <<>>
    /\ rDecks = <<>>
    /\ rNotes = <<>>
    /\ rNext = 20
    /\ only_add_new = FALSE
    /\ pc = "if_first"
    /\ raised = ""
    /\ run = 1
    /\ file_states = <<>>
    /\ global_note_ids = {}
    /\ md_deck_ids = {}
    /\ anki = NoAnki
    /\ idx = 0
    /\ results = <<>>
    /\ pending_writes = <<>>
    /\ calls = <<>>
    /\ untracked_decks = {}
    /\ history = <<>>
    /\ args = [op |-> "infer_note_type", deck_name |-> "", keep_orphans |-> FALSE]
    /\ files_by_path = <<>>
    /\ files_by_deck_id = <<>>
    /\ answers = <<>>

NextInfer ==
    \/ InferType
    \/ InferOther

SpecInfer == InitInfer /\ [][NextInfer]_vars

\* ===================================================== unpackaging of media
\* unpackage_collection_from_json on a ZIP package, the extraction of the
\* media.  files is the media directory, args.media the entries of the
\* package under media/, idx the entry of the loop, cur.created the counter
\* of the search for a free name, history the log of what was done with each
\* entry.  A file name is a sequence: <<"t">> is t.png, <<"t", 1>> is t_1.png,
\* <<"t", 1, 1>> is t_1_1.png.
MediaNames == {<<"t">>, <<"t", 1>>, <<"t", 2>>}

MediaContents == {"old", "new"}

MediaDirs ==
    UNION {[S -> MediaContents] : S \in SUBSET MediaNames}

MediaEntries ==
    UNION {[1..n -> [name : {<<"t">>, <<"t", 1>>}, content : MediaContents]] :
              n \in 0..2}

\* existing_hash == new_hash, without the comparison.
same_hash_never(existing, new) == FALSE

\* compute_file_hash(target) == compute_zipfile_hash(zipf, media_file)
same_hash(existing, new) == existing = new

\* f"{base_name}_{counter}{extension}"
new_filename(filename, counter) == Append(filename, counter)

MediaLog(entry, action, target) ==
    [filename |-> entry.name, action |-> action, target |-> target]

\* One entry of the package: extracted when the name is free, skipped when
\* the file exists with the same content, or the search for a name begins.
MediaEntry ==
    /\ pc = "um_next"
    /\ idx <= Len(args.media)
    /\ LET entry == args.media[idx]
           target == entry.name
       IN  IF target \notin DOMAIN files
           THEN /\ files' = (target :> entry.content) @@ files
                /\ history' = Append(history, MediaLog(entry, "extracted", target))
                /\ idx' = idx + 1
                /\ UNCHANGED <<pc, cur>>
           ELSE IF same_hash(files[target], entry.content)
           THEN /\ history' = Append(history, MediaLog(entry, "skipped", target))
                /\ idx' = idx + 1
                /\ UNCHANGED <<files, pc, cur>>
           ELSE /\ pc' = "um_probe"
                /\ cur' = [NoCur EXCEPT !.created = 1]
                /\ UNCHANGED <<files, history, idx>>
    /\ UNCHANGED <<remoteVars, only_add_new, raised, run, file_states,
                   global_note_ids, md_deck_ids, anki, results, pending_writes,
                   calls, untracked_decks, exportVars>>

\* One iteration of the search: the name with the counter is taken when no
\* file has it, else the counter goes up.
MediaProbe ==
    /\ pc = "um_probe"
    /\ LET entry == args.media[idx]
           new_target == new_filename(entry.name, cur.created)
       IN  IF new_target \notin DOMAIN files
           THEN /\ files' = (new_target :> entry.content) @@ files
                /\ history' = Append(history, MediaLog(entry, "renamed", new_target))
                /\ idx' = idx + 1
                /\ pc' = "um_next"
                /\ cur' = NoCur
           ELSE /\ cur' = [cur EXCEPT !.created = @ + 1]
                /\ UNCHANGED <<files, history, idx, pc>>
    /\ UNCHANGED <<remoteVars, only_add_new, raised, run, file_states,
                   global_note_ids, md_deck_ids, anki, results, pending_writes,
                   calls, untracked_decks, exportVars>>

\* After the last entry the config file and the deck files are written to
\* the collection directory; the media directory is left as it is.
MediaFinish ==
    /\ pc = "um_next"
    /\ idx > Len(args.media)
    /\ pc' = "um_done"
    /\ UNCHANGED <<files, remoteVars, only_add_new, raised, run, file_states,
                   global_note_ids, md_deck_ids, anki, idx, cur, results,
                   pending_writes, calls, untracked_decks, history, exportVars>>

InitMedia ==
    /\ files \in MediaDirs
    /\ \E media \in MediaEntries : args = [op |-> "unpackage", media |-> media]
    /\ rDecks = <<>>
    /\ rNotes = <<>>
    /\ rNext = 20
    /\ only_add_new = FALSE
    /\ pc = "um_next"
    /\ raised = ""
    /\ run = 1
    /\ file_states = <<>>
    /\ global_note_ids = {}
    /\ md_deck_ids = {}
    /\ anki = NoAnki
    /\ idx = 1
    /\ cur = NoCur
    /\ results = <<>>
    /\ pending_writes = <<>>
    /\ calls = <<>>
    /\ untracked_decks = {}
    /\ history = <<>>
    /\ files_by_path = <<>>
    /\ files_by_deck_id = <<>>
    /\ answers = <<>>

NextMedia ==
    \/ MediaEntry
    \/ MediaProbe
    \/ MediaFinish

\* The program runs on until it ends: a step that can be taken is taken.
SpecMedia == InitMedia /\ [][NextMedia]_vars /\ WF_vars(NextMedia)

\* ===================================================== the order of files
\* import_collection processes the files in the order of their names.  Two
\* files that name their decks by deck id are imported, Anki and the
\* directory are put back as they were with the names of the two files
\* exchanged, and the import runs again: the same files in the other order.
\* Anki answers every request of these runs (no request fails on its own).
SwapNames(fs) == ("A" :> fs["B"]) @@ ("B" :> fs["A"])

\* The outcome of the first run is kept, the inputs are restored.
Replay ==
    /\ pc = "done"
    /\ run = 1
    /\ run' = 2
    /\ history' = <<[files |-> files, rNotes |-> rNotes, results |-> results]>>
    /\ files' = SwapNames(args.orig.files)
    /\ rNotes' = args.orig.rNotes
    /\ rNext' = args.orig.rNext
    /\ pc' = "start"
    /\ raised' = ""
    /\ file_states' = <<>>
    /\ global_note_ids' = {}
    /\ md_deck_ids' = {}
    /\ anki' = NoAnki
    /\ idx' = 0
    /\ cur' = NoCur
    /\ results' = <<>>
    /\ pending_writes' = <<>>
    /\ calls' = <<>>
    /\ untracked_decks' = {}
    /\ UNCHANGED <<rDecks, only_add_new, exportVars>>

\* The create batch when no request fails on its own.
ReliableCreate ==
    /\ SyncCreate
    /\ rNotes' = CreateBatch([notes |-> rNotes, next |-> rNext,
                              id_assignments |-> <<>>, errors |-> <<>>],
                             file_states[idx], cur.deck_name, cur.new, {}).notes

ReplayNotes ==
    {n1 @@ n2 : n1 \in {<<>>, 1 :> ClozeNote("ha", "A"), 1 :> ClozeNote("hb", "B")},
                n2 \in {<<>>, 2 :> ClozeNote("hb", "A")}}

InitReplay ==
    /\ \E ba, bb \in BlockSeqs(1) :
          files = ("A" :> FileContent(10, ba)) @@ ("B" :> FileContent(12, bb))
    /\ rDecks = ("A" :> 10) @@ ("B" :> 12)
    /\ rNotes \in ReplayNotes
    /\ rNext = 20
    /\ only_add_new = FALSE
    /\ pc = "start"
    /\ raised = ""
    /\ run = 1
    /\ file_states = <<>>
    /\ global_note_ids = {}
    /\ md_deck_ids = {}
    /\ anki = NoAnki
    /\ idx = 0
    /\ cur = NoCur
    /\ results = <<>>
    /\ pending_writes = <<>>
    /\ calls = <<>>
    /\ untracked_decks = {}
    /\ history = <<>>
    /\ args = [op |-> "import_collection", deck_name |-> "", keep_orphans |-> FALSE,
               orig |-> [files |-> files, rNotes |-> rNotes, rNext |-> rNext]]
    /\ files_by_path = <<>>
    /\ files_by_deck_id = <<>>
    /\ answers = <<>>

NextReplay ==
    \/ ImportStart
    \/ Fetch
    \/ \E answer \in Answers : PromptInvalidIds(answer)
    \/ SyncResolve
    \/ SyncMove(TRUE)
    \/ SyncUpdate({})
    \/ SyncDelete
    \/ ReliableCreate
    \/ FlushWrite
    \/ DetectUntracked
    \/ Replay

SpecReplay == InitReplay /\ [][NextReplay]_vars

\* ================================================================ claims
LocalNoteIdsOfRun == UNION {note_ids(file_states[i]) : i \in DOMAIN file_states}

SharedAcrossFiles ==
    \E i, j \in DOMAIN file_states :
        /\ i # j
        /\ \/ note_ids(file_states[i]) \cap note_ids(file_states[j]) # {}
           \/ file_states[i].deck_id # None /\ file_states[i].deck_id = file_states[j].deck_id

\* C1: when two files of a collection carry the same note id or the same
\* deck id, import_collection raises and has sent no request to Anki.
C1_DuplicateIdsAbortBeforeAnki ==
    (pc # "start" /\ SharedAcrossFiles)
        => (pc = "raised" /\ raised = "duplicate_ids" /\ calls = <<>>)

C1_Witness ==
    /\ pc = "raised"
    /\ raised = "duplicate_ids"
    /\ SharedAcrossFiles
    /\ DOMAIN rNotes # {}

\* C2: no deleteNotes request of a run names a note id that stands in a
\* local file of that run, be it claimed by another file or by an invalid note.
C2_NoDeleteOfLocalIds ==
    \A k \in DOMAIN calls :
        calls[k].action = "deleteNotes" => calls[k].ids \cap LocalNoteIdsOfRun = {}

\* File A deletes an orphan of its deck while the same deck holds a note
\* that only file B claims.
C2_Witness ==
    /\ pc = "create"
    /\ idx = 1
    /\ Len(file_states) = 2
    /\ calls[Len(calls)].action = "deleteNotes"
    /\ \E n \in Get(anki.deck_note_ids, cur.deck_name, {}) :
         n \in note_ids(file_states[2]) /\ n \notin note_ids(file_states[1])

\* The write-back of file k has been reached by this run's _flush_writes.
FlushReached(k) ==
    /\ k \in DOMAIN pending_writes
    /\ \/ pc \in {"untracked", "done"}
       \/ pc = "flush" /\ k < idx
       \/ pc = "raised" /\ raised = "duplicate_first_lines" /\ k <= idx

HasPending(k) ==
    \/ pending_writes[k].deck_id_to_write # None
    \/ pending_writes[k].id_assignments # <<>>

FlushWritten(k) ==
    /\ FlushReached(k)
    /\ HasPending(k)
    /\ ~(pc = "raised" /\ k = idx)

Reparsed(k) == from_file(file_states[k].file_path, files[file_states[k].file_path])

AssignedId(k, j) ==
    LET hits == {a \in DOMAIN pending_writes[k].id_assignments :
                    pending_writes[k].id_assignments[a][1] = j}
    IN  IF hits = {} THEN file_states[k].parsed_notes[j].note_id
        ELSE pending_writes[k].id_assignments[CHOOSE a \in hits : TRUE][2]

\* The write-back of file k gave every created note its id and left every
\* other block as it was.
WriteBackExact(k) ==
    /\ Reparsed(k).error = ""
    /\ Len(Reparsed(k).parsed_notes) = Len(file_states[k].parsed_notes)
    /\ \A j \in DOMAIN file_states[k].parsed_notes :
         /\ Reparsed(k).parsed_notes[j].fields = file_states[k].parsed_notes[j].fields
         /\ Reparsed(k).parsed_notes[j].note_type = file_states[k].parsed_notes[j].note_type
         /\ Reparsed(k).parsed_notes[j].note_id = AssignedId(k, j)

\* C7: the write-back puts a created note's id marker directly above that
\* note's own first content line: parsing the written file again yields the
\* note with its assigned id and every other block unchanged.
C7_WriteBackHitsOwnBlock ==
    \A k \in DOMAIN pending_writes : FlushWritten(k) => WriteBackExact(k)

ZeroCounts(r) ==
    r.updated = 0 /\ r.created = 0 /\ r.deleted = 0 /\ r.moved = 0

\* C3: a run that follows a completed, error-free run with no edit in
\* between reports zero updated, created, deleted and moved notes for every
\* file and sends no mutating request.
C3_SecondRunIsNoOp ==
    (run = 2 /\ history[1].end = "done" /\ history[1].errors = 0)
        => /\ Mutations(calls) = <<>>
           /\ \A k \in DOMAIN results : ZeroCounts(results[k])
           /\ ZeroCounts(cur)

ManagedInDeck(deck) ==
    {n \in DOMAIN rNotes : rNotes[n].deck = deck
                            /\ rNotes[n].note_type \in SUPPORTED_NOTE_TYPES}

FileMirrorsDeck(k) ==
    LET re == Reparsed(k)
    IN  /\ re.error = ""
        /\ ManagedInDeck(results[k].deck_name) = note_ids(re)
        /\ \A j \in DOMAIN re.parsed_notes :
             LET note == re.parsed_notes[j]
             IN  /\ note.note_id \in DOMAIN rNotes
                 /\ \A f \in DOMAIN rNotes[note.note_id].fields :
                      rNotes[note.note_id].fields[f] = Get(to_html(note), f, "")

DistinctDecks ==
    \A i, j \in DOMAIN results : i # j => results[i].deck_name # results[j].deck_name

\* C4: when import_collection completes with an empty error list (full
\* import, every file its own deck), the managed notes of each file's deck
\* are exactly the note ids of the written file, with the converted fields.
C4_CompletedRunMirrorsFiles ==
    (pc = "done" /\ TotalErrors = 0 /\ ~only_add_new /\ DistinctDecks)
        => \A k \in DOMAIN results : FileMirrorsDeck(k)

CreatedIds == UNION {calls[c].ids : c \in {c \in DOMAIN calls : calls[c].action = "addNote"}}

RecordedIds ==
    UNION {LET re == from_file(f, files[f])
           IN  IF re.error = "" THEN note_ids(re) ELSE {} : f \in DOMAIN files}

\* C5: however a run ends, the id of every note it created stands in a
\* local file at the end of the run.
C5_CreatedIdsRecorded ==
    Terminal => CreatedIds \subseteq RecordedIds

\* C6: a note type mismatch aborts the import with no remote mutation at
\* all: no deck created, no note of this or an earlier file touched.
C6_TypeMismatchMutatesNothing ==
    (pc = "raised" /\ raised = "type_mismatch") => Mutations(calls) = <<>>

\* Two created notes of file k had no id and share their first line.
SharedFirstLineCreated(k) ==
    \E a, b \in DOMAIN pending_writes[k].id_assignments :
        LET na == file_states[k].parsed_notes[pending_writes[k].id_assignments[a][1]]
            nb == file_states[k].parsed_notes[pending_writes[k].id_assignments[b][1]]
        IN  a # b /\ na.note_id = None /\ nb.note_id = None
            /\ first_line(na) = first_line(nb)

\* C8: when two notes created from id-less blocks of one file share their
\* first line, the write-back of that file raises and leaves the file as it
\* was read: no note id and no deck id is written.
C8_SharedFirstLineLeavesFile ==
    \A k \in DOMAIN pending_writes :
        (FlushReached(k) /\ SharedFirstLineCreated(k))
            => /\ pc = "raised"
               /\ raised = "duplicate_first_lines"
               /\ idx = k
               /\ files[file_states[k].file_path] = file_states[k].raw_content

C8_Witness ==
    /\ pc = "raised"
    /\ raised = "duplicate_first_lines"
    /\ SharedFirstLineCreated(idx)
    /\ pending_writes[idx].deck_id_to_write # None

\* C9: the duplicate-first-line abort is confined to its file: the pending
\* write-backs of the other files are applied all the same.
C9_AbortConfinedToFile ==
    (pc = "raised" /\ raised = "duplicate_first_lines")
        => \A k \in DOMAIN pending_writes :
             (k # idx /\ HasPending(k) /\ ~SharedFirstLineCreated(k))
                => files[file_states[k].file_path]
                     = flush_content(file_states[k], pending_writes[k])

\* A block of the file has no id marker line at all.
HasIdLessBlock(content) ==
    LET blocks == SplitBlocks(extract_deck_id(content)[2], <<>>)
    IN  \E i \in DOMAIN blocks : \A j \in DOMAIN blocks[i] : blocks[i][j].k # "note_id"

AnyFileIdLess == \E p \in DOMAIN files : HasIdLessBlock(files[p])

OutputFileIdLess ==
    /\ sanitize_filename(args.deck_name) \in DOMAIN files
    /\ HasIdLessBlock(files[sanitize_filename(args.deck_name)])

Confirmed == \E i \in DOMAIN answers : Normalize(answers[i]) = "y"

\* C10 as stated: while any local file holds a block without a note id and
\* the caller has not answered 'y', no step of export_collection or
\* export_deck writes, renames or deletes a local file.
C10_ExportNeedsConfirmation ==
    [][(AnyFileIdLess /\ ~Confirmed') => files' = files]_vars

\* C10: export_collection changes no local file while any local file holds a
\* block without a note id, and export_deck none while its own output file
\* holds one, unless the caller has answered 'y' (any case, blanks
\* stripped); on any other answer the export ends with every file unchanged.
C10_ExportGuardsItsTargets ==
    [][((IF args.op = "export_deck" THEN OutputFileIdLess ELSE AnyFileIdLess)
          /\ ~Confirmed')
        => (files' = files /\ (answers' # answers => pc' = "cancelled"))]_vars

\* The caller declined an export that had notes to write over a file with
\* a block without id.
C10_Witness ==
    /\ pc = "cancelled"
    /\ Len(answers) = 1
    /\ Normalize(answers[1]) # "y"
    /\ IF args.op = "export_deck" THEN OutputFileIdLess ELSE AnyFileIdLess
    /\ DOMAIN anki.deck_note_ids # {}

\* ------------------------------------------------------------------- C11
\* The deck a file of the run is synced into: by its deck_id marker if Anki
\* knows the id, else by its file name.
ResolvedDeck(fs) ==
    IF Truthy(fs.deck_id) /\ fs.deck_id \in DOMAIN anki.id_to_deck_name
    THEN anki.id_to_deck_name[fs.deck_id]
    ELSE fs.file_path

DecksOfFiles == {ResolvedDeck(file_states[k]) : k \in DOMAIN file_states}

\* Remote notes that sit in a deck no local file is synced into.
NotesWithoutFile == {n \in DOMAIN rNotes : rNotes[n].deck \notin DecksOfFiles}

CliAnswered == pc = "done" /\ pc' = "cli_done"

\* C11: a note of a remote deck without local file disappears from Anki only
\* in the step in which the caller answers 'y' (after trimming and lowering)
\* to run_ma's prompt, never in a step of import_collection; and a step
\* in which the caller answers anything else leaves every remote note in place.
C11_UntrackedDeletedOnlyOnYes ==
    [][/\ (\E n \in NotesWithoutFile : n \notin DOMAIN rNotes')
            => (CliAnswered /\ Confirmed')
       /\ (CliAnswered /\ ~Confirmed') => (rNotes' = rNotes /\ calls' = calls)]_vars

C11_Witness ==
    /\ pc = "cli_done"
    /\ Confirmed
    /\ "B" \in DOMAIN rDecks
    /\ "B" \notin DecksOfFiles
    /\ 2 \notin DOMAIN rNotes
    /\ \E k \in DOMAIN calls :
          calls[k].action = "deleteNotes" /\ calls[k].deck = "B" /\ 2 \in calls[k].ids

\* ------------------------------------------------------------------- C12
\* C12: once import_collection has returned, no deck it reports as untracked
\* is the deck that a file of the run was synced into.
C12_UntrackedHasNoFile ==
    pc = "done" =>
        \A ud \in untracked_decks :
            \A k \in DOMAIN results : results[k].deck_name # ud.deck_name

\* ------------------------------------------------------------------- C13
\* The requests issued by the step, and the ids of its updateNoteFields.
IssuedNow == {calls'[k] : k \in (Len(calls) + 1)..Len(calls')}

UpdatedNow == UNION {c.ids : c \in {c \in IssuedNow : c.action = "updateNoteFields"}}

LocalHtml(note, f) ==
    IF f \in FieldNames(note.fields) THEN Convert(FieldGet(note.fields, f)) ELSE ""

ClearedFields(note) ==
    {f \in TypeFields(note.note_type) \ FieldNames(note.fields) :
        anki.notes[note.note_id].fields[f] # ""}

Deficient(note) ==
    \A i \in DOMAIN NOTE_TYPES :
        \E f \in RequiredFields(i) : FieldGet(note.fields, f) = ""

NotesOfFile(name) == from_file(name, files[name]).parsed_notes

DeficientIds(name) ==
    {NotesOfFile(name)[i].note_id :
        i \in {i \in DOMAIN NotesOfFile(name) : Deficient(NotesOfFile(name)[i])}} \ {None}

SoundNewNotes(name) ==
    {i \in DOMAIN NotesOfFile(name) :
        /\ ~Deficient(NotesOfFile(name)[i])
        /\ NotesOfFile(name)[i].note_id \notin DOMAIN anki.notes}

IdsOf(actions) ==
    UNION {calls[k].ids : k \in {k \in DOMAIN calls : calls[k].action \in actions}}

\* C14: in the first run over a file with a note whose mandatory field is
\* empty or missing, parsing does not abort the run; no changeDeck or
\* updateNoteFields names such a note and none is deleted in Anki; until
\* write-back no more notes are added than the file has other, new or stale,
\* notes; and the file's result carries at least one error.
C14_DeficientNoteIsPerRecordError ==
    (history = <<>> /\ \E i \in DOMAIN NotesOfFile("A") : Deficient(NotesOfFile("A")[i])) =>
        /\ raised # "parse_error"
        /\ IdsOf({"changeDeck", "updateNoteFields", "deleteNotes"}) \cap DeficientIds("A") = {}
        /\ pc = "flush" =>
              /\ Cardinality(IdsOf({"addNote"})) <= Cardinality(SoundNewNotes("A"))
              /\ results[1].errors # <<>>

\* ------------------------------------------------------------------- C15
\* The notes of the single file whose id Anki does not know (stale notes).
StaleNotes ==
    {i \in DOMAIN file_states[1].parsed_notes :
        LET note == file_states[1].parsed_notes[i]
        IN  /\ IsValid(note)
            /\ Truthy(note.note_id)
            /\ note.note_id \notin DOMAIN anki.notes}

NewIdsOf(i) ==
    {a[2] : a \in {a \in Range(pending_writes[1].id_assignments) : a[1] = i}}

\* C15: after the write-back of a first run in update mode in which Anki
\* refused no request, every stale note of the file has exactly one newly
\* assigned id; that id was added by addNote, the added note holds the
\* converted local fields in the file's deck, and the note's block in the
\* written file now carries that id.
C15_StaleNoteRecreated ==
    (/\ pc = "untracked"
     /\ history = <<>>
     /\ ~only_add_new
     /\ Len(results) = 1
     /\ results[1].errors = <<>>) =>
        \A i \in StaleNotes :
            /\ Cardinality(NewIdsOf(i)) = 1
            /\ \A m \in NewIdsOf(i) :
                  /\ m \in IdsOf({"addNote"})
                  /\ m \in DOMAIN rNotes
                  /\ rNotes[m].deck = results[1].deck_name
                  /\ \A f \in TypeFields(rNotes[m].note_type) :
                        rNotes[m].fields[f] = LocalHtml(file_states[1].parsed_notes[i], f)
                  /\ NotesOfFile("A")[i].note_id = m

\* ------------------------------------------------------------------- C16
IdsInContent(content) ==
    {b[1].n : b \in {b \in Range(SplitBlocks(extract_deck_id(content)[2], <<>>)) :
                        b[1].k = "note_id"}}

\* The files read at the start of the export shared no note id.
DisjointAtStart ==
    \A p, q \in DOMAIN files_by_path :
        p # q => IdsInContent(files_by_path[p].raw_content)
                 \cap IdsInContent(files_by_path[q].raw_content) = {}

\* C16: when export_collection without keep_orphans has returned, over files
\* that shared no note id before, no note id is in two local files.
C16_ExportKeepsIdsInOneFile ==
    (/\ pc = "done"
     /\ args.op = "export_collection"
     /\ ~args.keep_orphans
     /\ DisjointAtStart) =>
        \A p, q \in DOMAIN files :
            p # q => IdsInContent(files[p]) \cap IdsInContent(files[q]) = {}

\* ------------------------------------------------------------------- C17
\* C17: once export_collection is past its rename phase with a file whose
\* deck_id names a deck of another name, the run has not failed and the file
\* is on disk under the sanitized deck name only; and when the run has
\* returned, that deck, if it holds notes, has been synced into that file.
C17_RenamedDeckFileFollows ==
    (/\ args.op = "export_collection"
     /\ pc \in {"x_sync", "x_orphans", "done", "raised"}
     /\ needs_rename(anki) # {}) =>
        /\ pc # "raised"
        /\ \A d \in needs_rename(anki) :
              LET deck_name == anki.id_to_deck_name[d] IN
              /\ sanitize_filename(deck_name) \in DOMAIN files
              /\ pc = "done" /\ deck_name \in DOMAIN anki.deck_note_ids =>
                    /\ \E k \in DOMAIN results : results[k].deck_name = deck_name
                    /\ IdsInContent(files[sanitize_filename(deck_name)])
                         = anki.deck_note_ids[deck_name]

\* ------------------------------------------------------------------- C18
\* C18: no step of the sync and orphan phases of export_collection with
\* keep_orphans takes a file off the disk or takes out of a file a block
\* whose note id Anki does not know.
C18_KeepOrphansKeepsBlocks ==
    [][(args.op = "export_collection" /\ args.keep_orphans
            /\ pc \in {"x_sync", "x_orphans"}) =>
        \A p \in DOMAIN files :
            /\ p \in DOMAIN files'
            /\ IdsInContent(files[p]) \ DOMAIN anki.notes
                  \subseteq IdsInContent(files'[p])]_vars

\* ------------------------------------------------------------------- C19
\* C19: in a run with only_add_new no changeDeck, updateNoteFields or
\* deleteNotes request is issued, and the result of the file counts as
\* skipped every valid note of the file that carries an id.
C19_OnlyAddNewOnlyAdds ==
    only_add_new =>
        /\ \A k \in DOMAIN calls :
              calls[k].action \notin {"changeDeck", "updateNoteFields", "deleteNotes"}
        /\ (history = <<>> /\ Len(results) = 1) =>
              results[1].skipped =
                  Cardinality({i \in DOMAIN file_states[1].parsed_notes :
                                  /\ IsValid(file_states[1].parsed_notes[i])
                                  /\ Truthy(file_states[1].parsed_notes[i].note_id)})

\* ------------------------------------------------------------------- C20
\* The note ids of the identified blocks of a content, in block order.
IdSeqOf(content) ==
    LET blocks == SelectSeq(SplitBlocks(extract_deck_id(content)[2], <<>>),
                            LAMBDA b : b[1].k = "note_id")
    IN  [i \in DOMAIN blocks |-> blocks[i][1].n]

FirstOccurrences(s) ==
    LET ix == SelectSeq([i \in DOMAIN s |-> i],
                        LAMBDA i : \A j \in 1..(i - 1) : s[j] # s[i])
    IN  [k \in DOMAIN ix |-> s[ix[k]]]

IsAscending(s) == \A i, j \in DOMAIN s : i < j => s[i] < s[j]

\* The deck being synced by the step, and the file passed to _sync_deck
\* (<<>> stands for no file).
SyncedDeck ==
    IF pc = "x_deck_sync" THEN args.deck_name ELSE sorted_decks(anki)[idx]

PassedIds ==
    IF pc = "x_deck_sync"
    THEN IF sanitize_filename(args.deck_name) \in DOMAIN files_by_path
         THEN FirstOccurrences(IdSeqOf(files_by_path[sanitize_filename(args.deck_name)].raw_content))
         ELSE <<>>
    ELSE IF anki.deck_names_and_ids[SyncedDeck] \in DOMAIN files_by_deck_id
         THEN FirstOccurrences(IdSeqOf(
                 files_by_path[files_by_deck_id[anki.deck_names_and_ids[SyncedDeck]]].raw_content))
         ELSE <<>>

RoundId == CHOOSE n \in DOMAIN rNotes : TRUE

MandatoryFilled(note) ==
    \A i \in DOMAIN NOTE_TYPES :
        NOTE_TYPES[i].name = note.note_type =>
            \A f \in RequiredFields(i) : note.fields[f] # ""

\* C21: a note whose mandatory fields are non-empty, formatted as a block and
\* parsed again, gives exactly one note, without error, with the id and the
\* type of the original, with no field outside the type, and with, for every
\* field of the type, a content that converts to the original value (a field
\* without line counting as empty).
C21_FormatThenParseIsSameNote ==
    (pc = "rt_done" /\ MandatoryFilled(rNotes[RoundId])) =>
        /\ file_states[1].error = ""
        /\ Len(file_states[1].parsed_notes) = 1
        /\ LET note == rNotes[RoundId]
               parsed == file_states[1].parsed_notes[1]
           IN  /\ parsed.note_id = RoundId
               /\ parsed.note_type = note.note_type
               /\ FieldNames(parsed.fields) \subseteq TypeFields(note.note_type)
               /\ \A f \in TypeFields(note.note_type) :
                     /\ Convert(FieldGet(parsed.fields, f)) = note.fields[f]
                     /\ FieldGet(parsed.fields, f) = ConvertBack(note.fields[f])

\* C22: the cross-file duplicate check runs before any remote call of the
\* run: a run that has aborted on a duplicate id has sent no request to
\* Anki at all, not even a read such as deckNamesAndIds.
C22_NoCallBeforeDuplicateAbort ==
    raised = "duplicate_ids" => Len(calls) = 0

\* The choices of a note that are provided: those with a text.
ProvidedChoices(note) ==
    {i \in ChoiceNumbers : FieldGet(note.fields, ChoiceField(i)) # ""}

\* C23: a Choice note passes the validation only if every entry of its
\* answer is an integer that is the number of a choice provided (non-empty)
\* in the note.
C23_AcceptedAnswerNamesProvidedChoices ==
    (pc = "ch_done" /\ cur.errors = <<>>) =>
        LET note == file_states[1].parsed_notes[1]
            answer == FieldGet(note.fields, "Answer")
        IN  note.note_type = "AnkiOpsChoice" =>
               /\ is_integers(answer)
               /\ \A k \in DOMAIN answer_ints(answer) :
                     answer_ints(answer)[k] \in ProvidedChoices(note)

\* Every file of the media directory is there after the step, as it was.
MediaFilesKept ==
    \A name \in DOMAIN files : name \in DOMAIN files' /\ files'[name] = files[name]

\* The step that ends the handling of an entry whose name is taken: nothing
\* is written for the same content; a different content goes to the name
\* with the smallest counter N >= 1 that no file has.
MediaConflictSettled ==
    (idx' = idx + 1 /\ args.media[idx].name \in DOMAIN files) =>
        LET entry == args.media[idx] IN
        IF files[entry.name] = entry.content
        THEN files' = files
        ELSE \E N \in 1..(Cardinality(DOMAIN files) + 1) :
                /\ new_filename(entry.name, N) \notin DOMAIN files
                /\ \A M \in 1..(N - 1) : new_filename(entry.name, M) \in DOMAIN files
                /\ files' = (new_filename(entry.name, N) :> entry.content) @@ files

\* C24: unpackaging never modifies an existing media file: a packaged file
\* whose name exists with the same content is skipped, one with a different
\* content is stored as <stem>_<N><ext> for the smallest free N >= 1, and the
\* extraction (with every search for a name) comes to its end.
C24_MediaConflictsNeverOverwrite ==
    /\ [][MediaFilesKept /\ MediaConflictSettled]_vars
    /\ <>(pc = "um_done")

\* A package entry t.png met t.png and t_1.png with other contents and was
\* stored as t_2.png; another entry was skipped.
C24_Witness ==
    /\ pc = "um_done"
    /\ \E i \in DOMAIN history :
          history[i].action = "renamed" /\ history[i].target = <<"t", 2>>
    /\ \E i \in DOMAIN history : history[i].action = "skipped"

\* The blocks without a note id in a content.
IdLessBlocks(content) ==
    LET blocks == SplitBlocks(extract_deck_id(content)[2], <<>>)
    IN  {i \in DOMAIN blocks : from_block(blocks[i]).note_id = None}

IdLessBlockCount ==
    SumSeq([k \in 1..Len(md_files) |-> Cardinality(IdLessBlocks(files[md_files[k]]))])

\* C25: when export_collection asks for the confirmation, what it has shown
\* to the caller counts as many untracked blocks as the local files hold
\* blocks without a note id.
C25_SurfacedCountIsBlockCount ==
    (pc = "x_prompt" /\ args.op = "export_collection") =>
        Cardinality(files_with_untracked(files_by_path)) = IdLessBlockCount

\* What does hold: the files shown are the files with an id-less block.
SurfacedFilesAreExact ==
    (pc = "x_prompt" /\ args.op = "export_collection") =>
        files_with_untracked(files_by_path)
            = {p \in DOMAIN files : IdLessBlocks(files[p]) # {}}

SyncPhases == <<"resolve", "move", "update", "delete", "create">>

PhaseRank(phase) == CHOOSE r \in DOMAIN SyncPhases : SyncPhases[r] = phase

RequestRank(action) ==
    CHOOSE r \in 1..5 :
        <<"createDeck", "changeDeck", "updateNoteFields", "deleteNotes", "addNote">>[r]
            = action

MutationsNow == {c \in IssuedNow : c.action \in MutationActions}

\* C26: within the pass of one file the requests that change Anki come in
\* the order createDeck, changeDeck, update batch, deleteNotes, create batch:
\* a step of the pass issues at most one of them, the one of its phase, the
\* pass goes from a phase to the next one only, and the notes deleted are
\* notes of the snapshot, none that the pass has created.
C26_PassIssuesRequestsInFixedOrder ==
    [][(pc \in Range(SyncPhases)) =>
          /\ Len(calls') <= Len(calls) + 1
          /\ \A c \in MutationsNow : RequestRank(c.action) = PhaseRank(pc)
          /\ (pc' \in Range(SyncPhases) /\ idx' = idx) =>
                 PhaseRank(pc') = PhaseRank(pc) + 1
          /\ (pc' \in Range(SyncPhases) /\ idx' # idx) =>
                 (pc = "create" /\ pc' = "resolve" /\ idx' = idx + 1)
          /\ \A c \in MutationsNow :
                 c.action = "deleteNotes" => c.ids \subseteq DOMAIN anki.notes]_vars

\* A run with the five requests: a deck created, a note moved and updated
\* in the pass of one file, a note deleted and a note created in the pass of
\* the other.
C26_Witness ==
    /\ pc = "done"
    /\ \A a \in MutationActions : \E i \in DOMAIN calls : calls[i].action = a

\* No file differs from what the run has read of it.
FilesAsRead ==
    \A k \in DOMAIN file_states :
        files[file_states[k].file_path] = file_states[k].raw_content

\* C27: in an import run no local file is written until the last request
\* that changes Anki has been issued: a step that issues such a request
\* finds every file as the run has read it.
C27_NoWriteBeforeLastMutation ==
    [][Len(Mutations(calls')) > Len(Mutations(calls)) => FilesAsRead]_vars

\* The notes of Anki without their ids: how many notes have each type,
\* fields and deck.
NotesContent(notes) ==
    [x \in {notes[n] : n \in DOMAIN notes} |->
        Cardinality({n \in DOMAIN notes : notes[n] = x})]

\* A content without the numbers of its note id lines.
IdsErased(content) ==
    [i \in DOMAIN content |->
        IF content[i].k = "note_id" THEN NoteIdLine(0) ELSE content[i]]

\* C28: for the same files and the same state of Anki, the state of Anki
\* and the contents of the files after import_collection are the same
\* whichever file is processed first (the ids that Anki gives to new notes
\* left aside).
C28_OutcomeIndependentOfFileOrder ==
    (run = 2 /\ pc = "done") =>
        /\ NotesContent(rNotes) = NotesContent(history[1].rNotes)
        /\ IdsErased(files["A"]) = IdsErased(history[1].files["B"])
        /\ IdsErased(files["B"]) = IdsErased(history[1].files["A"])

\* C29: the note ids that import_collection reports for an untracked deck
\* take account of the moves and deletions of the run: none is the id of a
\* note of a local file, and every one is the id of a note Anki still has.
C29_UntrackedIdsAreCurrent ==
    pc = "done" =>
        \A ud \in untracked_decks :
            /\ ud.note_ids \cap LocalNoteIdsOfRun = {}
            /\ ud.note_ids \subseteq DOMAIN rNotes

\* The deck B has no file, its note 1 is a note of the file A and has been
\* moved to the deck A by the run, and B is reported with the id 1.
C29_MovedNoteStillListed ==
    /\ pc = "done"
    /\ "B" \notin DOMAIN files
    /\ 1 \in LocalNoteIdsOfRun
    /\ 1 \in DOMAIN rNotes /\ rNotes[1].deck = "A"
    /\ \E ud \in untracked_decks : ud.deck_name = "B" /\ 1 \in ud.note_ids

\* The deck_id marker of the k-th synced file, as the file reads now.
MarkerOf(k) == extract_deck_id(files[file_states[k].file_path])[1]

\* C30: when import_collection completes, the deck_id marker of every synced
\* file is the id of the remote deck its notes were synced into, also when
\* the marker named an unknown deck id and the deck was found by file name.
C30_MarkerNamesSyncedDeck ==
    pc = "done" =>
        \A k \in DOMAIN results : MarkerOf(k) = rDecks[results[k].deck_name]

\* The file A carried the unknown deck id 11, was synced into the deck A
\* (id 10) found by its name, and still carries the marker 11.
C30_StaleMarkerKept ==
    /\ pc = "done"
    /\ \E k \in DOMAIN results :
          /\ file_states[k].file_path = "A"
          /\ file_states[k].deck_id = 11
          /\ results[k].deck_name = "A"
          /\ rDecks["A"] = 10
          /\ MarkerOf(k) = 11

\* No deck id stands as the marker of two local files.
DeckIdsUnique(fl) ==
    \A f, g \in DOMAIN fl :
        (f # g /\ extract_deck_id(fl[f])[1] # None)
            => extract_deck_id(fl[f])[1] # extract_deck_id(fl[g])[1]

\* C31: the write-back of import_collection keeps the deck ids of the local
\* files unique: no write turns files without a shared deck id into files
\* with one.
C31_WriteBackKeepsDeckIdsUnique ==
    [][DeckIdsUnique(files) => DeckIdsUnique(files')]_vars

\* The file A had no marker, the file B carries the id 10 of the deck A, the
\* run completed, and both files now carry the marker 10.
C31_SharedDeckIdWritten ==
    /\ pc = "done"
    /\ file_states[1].deck_id = None
    /\ Len(file_states) = 2 /\ file_states[2].deck_id = 10
    /\ extract_deck_id(files["A"])[1] = 10
    /\ extract_deck_id(files["B"])[1] = 10

\* The step that resolves the deck of the file at idx.
ResolveStep == pc = "resolve" /\ pc' # "resolve"

\* The remote deck that carries the id of the file's marker, if there is one.
DeckWithId(id) == {d \in DOMAIN rDecks : rDecks[d] = id}

ResolvedAsClaimed(fs) ==
    IF fs.deck_id # None /\ DeckWithId(fs.deck_id) # {}
    THEN /\ cur'.deck_name \in DeckWithId(fs.deck_id)
         /\ calls' = calls
         /\ rDecks' = rDecks
    ELSE /\ cur'.deck_name = fs.file_path
         /\ IF fs.file_path \notin DOMAIN rDecks
            THEN /\ calls' = Append(calls, Call("createDeck", fs.file_path, {}))
                 /\ fs.file_path \in DOMAIN rDecks'
                 /\ cur'.deck_id_to_write = rDecks'[fs.file_path]
            ELSE /\ calls' = calls
                 /\ rDecks' = rDecks
                 /\ fs.deck_id = None
                      => cur'.deck_id_to_write = rDecks[fs.file_path]

\* The step that ends the pass of the file at idx queues what was resolved.
QueuedAsResolved ==
    (pc = "create" /\ Len(pending_writes') = Len(pending_writes) + 1)
        => pending_writes'[Len(pending_writes')].deck_id_to_write
              = cur.deck_id_to_write

\* C32: a file whose deck_id is the id of a remote deck is synced into that
\* deck whatever its name, with no createDeck; otherwise the deck is named
\* after the file, createDeck is issued once and its id queued only if no
\* remote deck has the name, and if one has and the file had no id, that
\* deck's id is queued and nothing is created.
C32_DeckResolution ==
    [][/\ ResolveStep => ResolvedAsClaimed(file_states[idx])
       /\ QueuedAsResolved]_vars

\* A completed run with two files: B.md carries the id of the deck A and was
\* synced into A with nothing queued, A.md had no id and got the id of A queued.
C32_Witness ==
    /\ pc = "done"
    /\ Len(results) = 2
    /\ file_states[2].file_path = "B" /\ file_states[2].deck_id = 10
    /\ results[2].deck_name = "A"
    /\ file_states[1].deck_id = None
    /\ pending_writes[1].deck_id_to_write = 10
    /\ Mutations(calls) # <<>>

\* The update batch of the file at idx, and its items that Anki has not
\* brought to the fields of the file after the step.
UpdateBatchNow == update_notes(file_states[idx], cur.existing, anki)

NotApplied ==
    {i \in Range(UpdateBatchNow) :
        LET note == file_states[idx].parsed_notes[i]
        IN  /\ note.note_id \in DOMAIN rNotes'
            /\ ~html_fields_match(to_html(note), rNotes'[note.note_id])}

\* The update step: every item of the batch is counted once, as updated or
\* as an error; an item is an error only if it is one of those Anki did not
\* apply, the others are applied; and the delete phase comes next.
UpdateBatchGoesOn ==
    (pc = "update" /\ pc' # "update") =>
        LET errors == Len(cur'.errors) - Len(cur.errors)
            updated == cur'.updated - cur.updated
        IN  /\ updated + errors = Len(UpdateBatchNow)
            /\ Cardinality(NotApplied) <= errors
            /\ updated >= 0 /\ errors >= 0
            /\ pc' = "delete"

\* The create step: every item of the batch is counted once, as created with
\* one id assignment or as one error without; every assigned id is a new
\* note of Anki; and the result and the pending write of the file are kept.
CreateBatchGoesOn ==
    (pc = "create" /\ pc' # "create") =>
        /\ Len(results') = Len(results) + 1
        /\ Len(pending_writes') = Len(pending_writes) + 1
        /\ LET result == results'[Len(results')]
               assigned == pending_writes'[Len(pending_writes')].id_assignments
               errors == Len(result.errors) - Len(cur.errors)
           IN  /\ result.created = Len(assigned)
               /\ result.created + errors = Len(cur.new)
               /\ errors >= 0
               /\ \A a \in Range(assigned) :
                     a[2] \in DOMAIN rNotes' /\ a[2] \notin DOMAIN rNotes
               /\ Cardinality({a[1] : a \in Range(assigned)}) = Len(assigned)
               /\ Cardinality(DOMAIN rNotes' \ DOMAIN rNotes) = Len(assigned)

\* C33: a failed item of an update or create batch does not stop the batch:
\* the other items are applied and counted as updated or created, the failed
\* item adds one error and no id assignment, and the later phases of the
\* file still run.
C33_FailedItemDoesNotStopBatch ==
    [][UpdateBatchGoesOn /\ CreateBatchGoesOn]_vars

\* A completed run whose update batch carried the notes 1 and 2: one item
\* failed and is an error, the other is counted as updated and applied.
C33_Witness ==
    /\ pc = "done"
    /\ Len(results) = 1
    /\ results[1].updated = 1
    /\ results[1].errors = <<"update_failed">>
    /\ \E c \in DOMAIN calls :
          calls[c].action = "updateNoteFields" /\ calls[c].ids = {1, 2}
    /\ \E i \in DOMAIN file_states[1].parsed_notes :
          LET note == file_states[1].parsed_notes[i]
          IN  /\ note.note_id \in DOMAIN rNotes
              /\ ~html_fields_match(to_html(note), anki.notes[note.note_id])
              /\ html_fields_match(to_html(note), rNotes[note.note_id])

\* A completed run whose create batch carried two notes: one was refused and
\* is an error, the other was created and got its id.
CreateFailureReached ==
    /\ pc = "done"
    /\ Len(results) = 1
    /\ results[1].created = 1
    /\ results[1].errors = <<"create_failed">>
    /\ Len(pending_writes[1].id_assignments) = 1

\* C34: the snapshot fetched at the start of a run is never modified during
\* the run: after the fetch, no step of import_collection changes its deck,
\* note, card or deck-membership indices.
C34_SnapshotNeverModified ==
    [][(pc # "fetch" /\ pc' # "start") => anki' = anki]_vars

\* The run completed and the snapshot holds a deck that Anki did not have
\* when the snapshot was fetched (the first request of the run after the
\* fetch created it).
C34_SnapshotGrew ==
    /\ pc = "done"
    /\ \E c \in DOMAIN calls :
          /\ calls[c].action = "createDeck"
          /\ calls[c].deck \in DOMAIN anki.deck_names_and_ids
          /\ \A b \in 1..(c - 1) : calls[b].action \notin MutationActions

\* The notesInfo answer of the run held a note of a foreign note type.
ForeignNoteFetched ==
    \E c \in DOMAIN calls :
        /\ calls[c].action = "notesInfo"
        /\ \E n \in calls[c].ids :
              args.orig.rNotes[n].note_type \notin SUPPORTED_NOTE_TYPES

\* C35: if the snapshot fetch answers with a note whose type is not a managed
\* note type, the run has raised, with no remote mutation issued, the remote
\* notes as they were, and every local file as it was before the run.
C35_ForeignNoteTypeRaisesBeforeAnyChange ==
    ForeignNoteFetched =>
        /\ pc = "raised" /\ raised = "safety_check"
        /\ Mutations(calls) = <<>>
        /\ rNotes = args.orig.rNotes
        /\ files = args.orig.files

\* The run raised on the foreign note 3 although a file held a note to create.
C35_Witness ==
    /\ pc = "raised" /\ raised = "safety_check"
    /\ ForeignNoteFetched
    /\ \E k \in DOMAIN file_states :
          \E i \in DOMAIN file_states[k].parsed_notes :
              file_states[k].parsed_notes[i].note_id = None

\* The line i of the block stands outside fenced code.
OutsideFence(block, i) ==
    /\ block[i] # FenceLine
    /\ Cardinality({j \in 1..(i - 1) : block[j] = FenceLine}) % 2 = 0

\* The same one of the prefixes starts two lines of the block outside fenced
\* code.
PrefixTwice(block, prefixes) ==
    \E i, j \in DOMAIN block :
        /\ i < j
        /\ block[i].k \in prefixes /\ block[j].k = block[i].k
        /\ OutsideFence(block, i) /\ OutsideFence(block, j)

\* C36: parsing a block in which the same field prefix starts a line twice
\* outside fenced code raises the duplicate-field error, in Note.from_block
\* and in parse_card_block; no note with one of the two contents is returned.
C36_DuplicatePrefixRaises ==
    /\ (pc \in {"ps_card", "ps_done"}
          /\ PrefixTwice(cur.block, DOMAIN ALL_PREFIX_TO_FIELD))
         => cur.note.error = "duplicate_field"
    /\ (pc = "ps_done" /\ PrefixTwice(cur.block, DOMAIN DECKOPS_PREFIX_TO_FIELD))
         => cur.card.error = "duplicate_field"

\* A block with "T:" twice outside fenced code and a code fence as well has
\* been parsed by both parsers, and both raised.
C36_Witness ==
    /\ pc = "ps_done"
    /\ PrefixTwice(cur.block, {"T:"})
    /\ \E i \in DOMAIN cur.block : cur.block[i] = FenceLine
    /\ cur.note.error = "duplicate_field"
    /\ cur.card.error = "duplicate_field"

\* A block with "T:" twice, once of them inside fenced code, parses.
FencedPrefixParses ==
    /\ pc = "ps_done"
    /\ Cardinality({i \in DOMAIN cur.block : cur.block[i].k = "T:"}) = 2
    /\ cur.note.error = "" /\ cur.card.error = ""

\* The line is a backslash followed by one of the prefixes.
IsEscaped(line, prefixes) == \E p \in prefixes : line.k = "\\" \o p

\* The block with every escaped-prefix line outside fenced code replaced by
\* the line of ordinary content it stands for: the same text without the
\* backslash.
Unescape(block, prefixes) ==
    [i \in DOMAIN block |->
        IF IsEscaped(block[i], prefixes) /\ OutsideFence(block, i)
        THEN LET p == CHOOSE p \in prefixes : block[i].k = "\\" \o p
             IN  TextLine(RawLine(FieldLine(p, block[i].t)))
        ELSE block[i]]

\* parse_card_block reads an escaped prefix as the claim says.
CardReadsEscapedAsContent ==
    pc = "ps_done" =>
        LET plain == parse_card_block(Unescape(cur.block, DOMAIN DECKOPS_PREFIX_TO_FIELD))
        IN  cur.card.fields = plain.fields /\ cur.card.error = plain.error

\* C38: a line that begins with a backslash and a known field prefix starts
\* no field: both parsers read it as the same line of ordinary content
\* without the backslash, appended to the current field.
C38_EscapedPrefixIsContent ==
    /\ pc \in {"ps_card", "ps_done"} =>
          LET plain == from_block(Unescape(cur.block, DOMAIN ALL_PREFIX_TO_FIELD))
          IN  cur.note.fields = plain.fields /\ cur.note.error = plain.error
    /\ CardReadsEscapedAsContent

\* The block 'T: a' followed by '\E: c' parsed by both parsers: the card has
\* the Text 'a', 'E: c'; the note keeps the backslash.
C38_BackslashKept ==
    /\ pc = "ps_done"
    /\ cur.block = <<FieldLine("T:", "a"), EscapedLine("E:", "c")>>
    /\ cur.card.fields = << <<"Text", "a\nE: c">> >>
    /\ cur.note.fields = << <<"Text", "a\n\\E: c">> >>

\* The mandatory fields of a note type, by its name.
Mandatory(name) ==
    RequiredFields(CHOOSE i \in DOMAIN NOTE_TYPES : NOTE_TYPES[i].name = name)

\* The types whose mandatory fields are all among the names.
Qualifying(names) == {t \in SUPPORTED_NOTE_TYPES : Mandatory(t) \subseteq names}

\* No qualifying type asks for all of the mandatory fields of t and more.
MostSpecific(t, names) ==
    \A u \in Qualifying(names) : ~(Mandatory(t) \subseteq Mandatory(u)
                                   /\ Mandatory(u) # Mandatory(t))

PassesBegun ==
    Len(results)
    + (IF pc \in {"move", "update", "delete", "create", "raised"} THEN 1 ELSE 0)

CallsOf(action) == SelectSeq(calls, LAMBDA c : c.action = action)

\* The numbers of requests of the run so far: at most 4 that read (the
\* fetch), and for the passes begun at most one request of each kind per
\* pass, hence at most 5 per pass, whatever the number of notes.
CallCountsBounded ==
    /\ Len(calls) - Len(Mutations(calls)) <= 4
    /\ \A a \in MutationActions : Len(CallsOf(a)) <= PassesBegun
    /\ Len(Mutations(calls)) <= 5 * PassesBegun

\* The request of the update, delete or create phase carries every item of
\* the phase: the whole update batch, every note the phase deletes or counts
\* as deleted, every note it creates.
BatchesWhole ==
    (pc \in {"update", "delete", "create"} /\ calls' # calls) =>
        LET call == calls'[Len(calls')]
        IN  /\ Len(calls') = Len(calls) + 1
            /\ pc = "update" =>
                  call.ids = {file_states[idx].parsed_notes[i].note_id :
                                 i \in Range(UpdateBatchNow)}
            /\ pc = "delete" =>
                  /\ DOMAIN rNotes \ DOMAIN rNotes' \subseteq call.ids
                  /\ Cardinality(call.ids) = cur'.deleted - cur.deleted
            /\ pc = "create" => call.ids = DOMAIN rNotes' \ DOMAIN rNotes

\* C39: the number of remote calls does not grow with the number of notes:
\* the fetch issues at most 4 calls, the pass of one file at most 5 (one per
\* phase), and each batch goes out whole in its one call.
C39_CallsIndependentOfNoteCount ==
    []CallCountsBounded /\ [][BatchesWhole]_vars

\* A completed run over two files: the fetch made its 4 calls, a batch call
\* carried two notes, and four requests changed Anki.
C39_Witness ==
    /\ pc = "done"
    /\ Len(results) = 2
    /\ Len(calls) - Len(Mutations(calls)) = 4
    /\ Len(Mutations(calls)) >= 4
    /\ \E c \in DOMAIN calls :
          calls[c].action \in {"addNote", "deleteNotes"}
          /\ Cardinality(calls[c].ids) = 2

====
